---- MODULE Spec2Model ----
(***************************************************************************)
(* Transcript segmentation and clip-extraction pipeline of learn-italian:  *)
(* CaptionProcessor (parsing of untimed prose, windowing), the extraction  *)
(* orchestrator VideoProcessingService with its progress store, the facade *)
(* VideoService.processVideo and the /process controller.                  *)
(*                                                                         *)
(* Texts are sequences of one-character strings.  Times are integers in    *)
(* milliseconds (the source keeps seconds as floating-point numbers with a *)
(* millisecond fraction).                                                  *)
(***************************************************************************)
EXTENDS Integers, Sequences, FiniteSets, TLC

(***************************************************************************)
(* Bounds of the model.                                                    *)
(***************************************************************************)
MaxTicks == 2
MaxReads == 1
\* the longest list of segments a job is given
MaxSegments == 40
\* the longest list of caption entries createSegments is called with
MaxCaptions == 2
\* the longest text of the caption entry whose sentences are cut
MaxChars == 6
\* the longest list of segments that is merged
MaxMerged == 3
\* the most blocks of a caption payload
MaxBlocks == 3

(***************************************************************************)
(* Program constants.                                                      *)
(***************************************************************************)
MsPerSec == 1000
\* processSegment: const maxRetries = 3
maxRetries == 3
\* clearOldProgress: 60 * 60 * 1000
OneHourMs == 3600000
\* parsePlainText: const durationPerSentence = 3
durationPerSentence == 3
\* the value of an optional field that is not set (undefined)
Undefined == -1

(***************************************************************************)
(* Strings as sequences of characters.                                     *)
(***************************************************************************)
Min(a, b) == IF a <= b THEN a ELSE b
Max(a, b) == IF a >= b THEN a ELSE b

\* \s of a JavaScript regular expression, over the alphabet of the model
SpaceChars == {" ", "\n", "\t"}
IsSpace(c) == c \in SpaceChars

\* the character class [.!?]
SentenceEndChars == {".", "!", "?"}

RECURSIVE TrimLeft(_)
TrimLeft(s) ==
  IF s = <<>> THEN <<>>
  ELSE IF IsSpace(Head(s)) THEN TrimLeft(Tail(s)) ELSE s

RECURSIVE TrimRight(_)
TrimRight(s) ==
  IF s = <<>> THEN <<>>
  ELSE IF IsSpace(s[Len(s)]) THEN TrimRight(SubSeq(s, 1, Len(s) - 1)) ELSE s

\* String.prototype.trim
Trim(s) == TrimRight(TrimLeft(s))

\* s.replace(/\s+/g, ' ')
\* (of a run of spaces the first character stays, as one blank)
CollapseSpaces(s) ==
  LET kept == SelectSeq([k \in 1..Len(s) |->
                           [c |-> s[k],
                            first |-> IF k = 1 THEN TRUE
                                      ELSE ~IsSpace(s[k - 1])]],
                        LAMBDA x : ~IsSpace(x.c) \/ x.first)
  IN [k \in 1..Len(kept) |-> IF IsSpace(kept[k].c) THEN " " ELSE kept[k].c]

\* s.split(re) for a regular expression re = [seps]+: the pieces between the
\* maximal runs of separators; a separator at either end leaves an empty
\* piece there, and "" splits into [""].
\* A piece begins at the first character and behind every run; it ends
\* before the next separator.
PieceStarts(s, seps) ==
  {1} \cup {k \in 2..(Len(s) + 1) :
             /\ s[k - 1] \in seps
             /\ IF k = Len(s) + 1 THEN TRUE ELSE s[k] \notin seps}

PieceFrom(s, seps, k) ==
  LET stops == {j \in k..Len(s) : s[j] \in seps}
      end == IF stops = {} THEN Len(s)
             ELSE (CHOOSE j \in stops : \A j2 \in stops : j <= j2) - 1
  IN SubSeq(s, k, end)

SplitRuns(s, seps) ==
  LET starts == PieceStarts(s, seps)
  IN [i \in 1..Cardinality(starts) |->
        PieceFrom(s, seps,
                  CHOOSE k \in starts :
                    Cardinality({x \in starts : x <= k}) = i)]

\* s.split(/\s+/).length
WordCount(s) == Len(SplitRuns(s, SpaceChars))

\* s.split(/[.!?]+/)
SplitSentences(s) == SplitRuns(s, SentenceEndChars)

Least(S) == CHOOSE x \in S : \A y \in S : x <= y

Greatest(S) == CHOOSE x \in S : \A y \in S : x >= y

\* s has `pattern` at position k
StartsAt(s, k, pattern) ==
  /\ k >= 1
  /\ k + Len(pattern) - 1 <= Len(s)
  /\ SubSeq(s, k, k + Len(pattern) - 1) = pattern

\* s.split(sep) for a separator of one character out of seps: every
\* separator ends a piece
SplitEach(s, seps) ==
  LET at == {k \in 1..Len(s) : s[k] \in seps}
      nth(i) == CHOOSE k \in at : Cardinality({x \in at : x <= k}) = i
  IN [i \in 1..(Cardinality(at) + 1) |->
        SubSeq(s, IF i = 1 THEN 1 ELSE nth(i - 1) + 1,
                  IF i = Cardinality(at) + 1 THEN Len(s) ELSE nth(i) - 1)]

\* s.replace(/pattern/g, replacement) for a literal pattern
RECURSIVE ReplaceFrom(_, _, _, _)
ReplaceFrom(s, pattern, replacement, from) ==
  LET hits == {k \in from..Len(s) : StartsAt(s, k, pattern)}
  IN IF hits = {} THEN SubSeq(s, from, Len(s))
     ELSE SubSeq(s, from, Least(hits) - 1) \o replacement
          \o ReplaceFrom(s, pattern, replacement, Least(hits) + Len(pattern))

ReplaceAll(s, pattern, replacement) == ReplaceFrom(s, pattern, replacement, 1)

\* .replace(/<[^>]*>/g, '')
RECURSIVE RemoveTagsFrom(_, _)
RemoveTagsFrom(s, i) ==
  IF i > Len(s) THEN <<>>
  ELSE LET closes == {j \in (i + 1)..Len(s) : s[j] = ">"}
       IN IF s[i] = "<" /\ closes # {}
          THEN RemoveTagsFrom(s, Least(closes) + 1)
          ELSE <<s[i]>> \o RemoveTagsFrom(s, i + 1)

RemoveTags(s) == RemoveTagsFrom(s, 1)

\* the characters that `.` does not match
LineEndChars == {"\n"}

\* .replace(/\[.*?\]/g, '')
RECURSIVE RemoveBracketsFrom(_, _)
RemoveBracketsFrom(s, i) ==
  IF i > Len(s) THEN <<>>
  ELSE LET closes == {j \in (i + 1)..Len(s) : s[j] = "]"}
       IN IF /\ s[i] = "["
             /\ closes # {}
             /\ \A k \in (i + 1)..(Least(closes) - 1) : s[k] \notin LineEndChars
          THEN RemoveBracketsFrom(s, Least(closes) + 1)
          ELSE <<s[i]>> \o RemoveBracketsFrom(s, i + 1)

RemoveBrackets(s) == RemoveBracketsFrom(s, 1)

\* parts.join(sep)
RECURSIVE Join(_, _)
Join(parts, sep) ==
  IF parts = <<>> THEN <<>>
  ELSE IF Len(parts) = 1 THEN parts[1]
  ELSE parts[1] \o sep \o Join(Tail(parts), sep)

\* n copies of s, one after the other
RECURSIVE Repeat(_, _)
Repeat(s, n) == IF n = 0 THEN <<>> ELSE s \o Repeat(s, n - 1)

(***************************************************************************)
(* CaptionProcessor.parsePlainText                                         *)
(***************************************************************************)
RECURSIVE PlainEntries(_, _)
PlainEntries(sentences, currentTime) ==
  IF sentences = <<>> THEN <<>>
  ELSE LET cleanSentence == Trim(Head(sentences)) IN
       IF cleanSentence # <<>>
       THEN <<[start |-> currentTime,
               end   |-> currentTime + durationPerSentence * MsPerSec,
               text  |-> cleanSentence]>>
            \o PlainEntries(Tail(sentences),
                            currentTime + durationPerSentence * MsPerSec)
       ELSE PlainEntries(Tail(sentences), currentTime)

parsePlainText(text) ==
  PlainEntries(SelectSeq(SplitSentences(text), LAMBDA s : Trim(s) # <<>>), 0)

(***************************************************************************)
(* CaptionProcessor.createSegments                                         *)
(***************************************************************************)
\* the defaults of the destructuring of options
DefaultOptions ==
  [segmentDuration |-> 8 * MsPerSec, overlap |-> 1 * MsPerSec,
   minSegmentDuration |-> 3 * MsPerSec, maxSegmentDuration |-> 15 * MsPerSec,
   preferSentenceBoundaries |-> TRUE, maxWordsPerSegment |-> 20]

\* a field the caller leaves out takes its default
WithDefaults(options) ==
  [f \in DOMAIN DefaultOptions |->
     IF f \in DOMAIN options THEN options[f] ELSE DefaultOptions[f]]

\* [...captions].sort((a, b) => a.start - b.start): a stable sort
RECURSIVE InsertByStart(_, _)
InsertByStart(sorted, c) ==
  IF sorted = <<>> THEN <<c>>
  ELSE IF sorted[Len(sorted)].start <= c.start THEN Append(sorted, c)
  ELSE Append(InsertByStart(SubSeq(sorted, 1, Len(sorted) - 1), c),
              sorted[Len(sorted)])

RECURSIVE SortByStart(_)
SortByStart(captions) ==
  IF captions = <<>> THEN <<>>
  ELSE InsertByStart(SortByStart(SubSeq(captions, 1, Len(captions) - 1)),
                     captions[Len(captions)])

\* Math.max(...captions.map(c => c.end)), for a non-empty list
RECURSIVE MaxEnd(_)
MaxEnd(captions) ==
  IF Len(captions) = 1 THEN captions[1].end
  ELSE Max(captions[1].end, MaxEnd(Tail(captions)))

\* the loop over sentences: whole sentences while the word count fits
RECURSIVE TakeSentences(_, _, _, _)
TakeSentences(sentences, text, words, maxWords) ==
  IF sentences = <<>> THEN text
  ELSE LET sentence == Trim(Head(sentences))
           sentenceWords == WordCount(sentence) IN
       IF words + sentenceWords <= maxWords /\ sentence # <<>>
       THEN TakeSentences(Tail(sentences),
                          text \o (IF text # <<>> THEN <<".", " ">> ELSE <<>>)
                               \o sentence,
                          words + sentenceWords, maxWords)
       ELSE text

\* the text of a window: the joined captions, cut at a sentence boundary
\* when it has too many words
WindowText(segmentCaptions, o) ==
  LET combinedText ==
        Trim(CollapseSpaces(
          Join([k \in 1..Len(segmentCaptions) |-> segmentCaptions[k].text],
               <<" ">>)))
      sentences == SplitSentences(combinedText)
      text == TakeSentences(sentences, <<>>, 0, o.maxWordsPerSegment)
  IN IF WordCount(combinedText) > o.maxWordsPerSegment
        /\ o.preferSentenceBoundaries
        /\ Len(sentences) > 1
        /\ text # <<>>
     THEN text ELSE combinedText

\* variant: the window moves on by its whole length
AdvanceWholeWindow(o) == o.segmentDuration

\* variant: the window moves on by its length less three overlaps
AdvanceLessOverlaps(o) == o.segmentDuration - 3 * o.overlap

\* currentTime += segmentDuration - overlap
Advance(o) == o.segmentDuration - o.overlap

\* variant: a window without captions is left like one with captions
AdvancePastGapLessOverlap(o) == o.segmentDuration - o.overlap

\* currentTime += segmentDuration, for a window without captions
AdvancePastGap(o) == o.segmentDuration

\* variant: every window with captions pushes a segment
EmitsAlways(actualStart, actualEnd, o) == TRUE

\* the guard of segments.push: the minimum duration
EmitsSegment(actualStart, actualEnd, o) ==
  actualEnd - actualStart >= o.minSegmentDuration

\* the end of the window at st.currentTime
SegmentEnd(captions, o, st) ==
  Min(st.currentTime + o.segmentDuration, MaxEnd(captions))

\* the captions that overlap the window at st.currentTime
WindowCaptions(captions, sortedCaptions, o, st) ==
  LET segmentEnd == SegmentEnd(captions, o, st)
  IN SelectSeq(sortedCaptions,
               LAMBDA c : c.start < segmentEnd /\ c.end > st.currentTime)

\* the bounds of the window, clipped to its captions
ActualStart(segmentCaptions, st) ==
  Max(st.currentTime, segmentCaptions[1].start)

ActualEnd(segmentCaptions, segmentEnd) ==
  Min(segmentEnd, segmentCaptions[Len(segmentCaptions)].end)

\* variant: a new segment is put in front of the others
Unshift(segments, segment) == <<segment>> \o segments

\* segments.push({...})
Push(segments, segment) == Append(segments, segment)

\* one iteration of the while loop, on the loop state
\* [currentTime, segmentId, segments]
WindowStep(captions, sortedCaptions, o, st) ==
  LET segmentEnd == SegmentEnd(captions, o, st)
      segmentCaptions == WindowCaptions(captions, sortedCaptions, o, st)
  IN IF Len(segmentCaptions) > 0
     THEN LET actualStart == ActualStart(segmentCaptions, st)
              actualEnd == ActualEnd(segmentCaptions, segmentEnd)
          IN IF EmitsSegment(actualStart, actualEnd, o)
             THEN [currentTime |-> st.currentTime + Advance(o),
                   segmentId |-> st.segmentId + 1,
                   segments |->
                     Push(st.segments,
                            [id |-> st.segmentId,
                             startTime |-> actualStart,
                             endTime |-> actualEnd,
                             text |-> WindowText(segmentCaptions, o),
                             translation |-> "",
                             audioUrl |-> <<>>,
                             videoUrl |-> <<>>])]
             ELSE [st EXCEPT !.currentTime = @ + Advance(o)]
     ELSE [st EXCEPT !.currentTime = @ + AdvancePastGap(o)]

\* the condition of the while loop
WindowLoopRuns(captions, st) == st.currentTime < MaxEnd(captions)

RECURSIVE WindowLoop(_, _, _, _)
WindowLoop(captions, sortedCaptions, o, st) ==
  IF WindowLoopRuns(captions, st)
  THEN WindowLoop(captions, sortedCaptions, o,
                  WindowStep(captions, sortedCaptions, o, st))
  ELSE st.segments

createSegments(captions, options) ==
  IF Len(captions) = 0 THEN <<>>
  ELSE WindowLoop(captions, SortByStart(captions), WithDefaults(options),
                  [currentTime |-> 0, segmentId |-> 1, segments |-> <<>>])

(***************************************************************************)
(* Math.round((i / n) * 100) in IEEE 754 double precision, for 0 <= i < n. *)
(* A double is [m, e]: m its 53 significand bits, most significant first   *)
(* (m[1] = 1), and e the exponent of m[1].  Division and multiplication    *)
(* round to nearest, ties to even.                                         *)
(***************************************************************************)
SignificandBits == 53
\* the product x * 100 is computed on limbs of LimbBits bits
LimbBits == 10
ProductLimbs == 6

Zeros(k) == IF k <= 0 THEN <<>> ELSE [x \in 1..k |-> 0]

RECURSIVE Pow2(_)
Pow2(k) == IF k = 0 THEN 1 ELSE 2 * Pow2(k - 1)

\* 2^k mod n, by repeated squaring
RECURSIVE Pow2Mod(_, _)
Pow2Mod(k, n) ==
  IF k = 0 THEN 1 % n
  ELSE LET h == Pow2Mod(k \div 2, n)
       IN IF k % 2 = 0 THEN (h * h) % n ELSE (2 * h * h) % n

\* the remainder (r * 2^k) mod n left after k bits of the binary expansion
\* of r / n (0 <= r < n)
FracRem(r, n, k) == (r * Pow2Mod(k, n)) % n

\* the first k bits of that expansion
FracBits(r, n, k) ==
  [j \in 1..k |-> IF 2 * FracRem(r, n, j - 1) >= n THEN 1 ELSE 0]

\* the number of zeros before the first one of that expansion (0 < r < n)
RECURSIVE LeadingZeros(_, _)
LeadingZeros(r, n) ==
  IF 2 * r >= n THEN 0 ELSE 1 + LeadingZeros(2 * r, n)

\* bits + 1, most significant bit first; one bit longer on a carry-out
Increment(bits) ==
  LET zs == {k \in 1..Len(bits) : bits[k] = 0}
  IN IF zs = {} THEN <<1>> \o Zeros(Len(bits))
     ELSE LET t == CHOOSE k \in zs : \A k2 \in zs : k2 <= k
          IN [k \in 1..Len(bits) |->
                IF k < t THEN bits[k] ELSE IF k = t THEN 1 ELSE 0]

RECURSIVE BitsToNat(_)
BitsToNat(bits) ==
  IF bits = <<>> THEN 0
  ELSE 2 * BitsToNat(SubSeq(bits, 1, Len(bits) - 1)) + bits[Len(bits)]

\* the limbs of a bit string of ProductLimbs * LimbBits bits, least
\* significant limb first
ToLimbs(bits) ==
  [l \in 1..ProductLimbs |->
     BitsToNat(SubSeq(bits, Len(bits) - LimbBits * l + 1,
                      Len(bits) - LimbBits * (l - 1)))]

\* limbs * factor + carry, the carry-out dropped
RECURSIVE LimbsTimes(_, _, _)
LimbsTimes(limbs, factor, carry) ==
  IF limbs = <<>> THEN <<>>
  ELSE LET t == Head(limbs) * factor + carry
       IN <<t % Pow2(LimbBits)>>
          \o LimbsTimes(Tail(limbs), factor, t \div Pow2(LimbBits))

\* the bit string of limbs, most significant bit first
FromLimbs(limbs) ==
  [k \in 1..(LimbBits * Len(limbs)) |->
     LET fromLow == LimbBits * Len(limbs) - k
     IN (limbs[fromLow \div LimbBits + 1] \div Pow2(fromLow % LimbBits)) % 2]

StripZeros(bits) ==
  LET ones == {k \in 1..Len(bits) : bits[k] = 1}
  IN IF ones = {} THEN <<>>
     ELSE SubSeq(bits, CHOOSE k \in ones : \A k2 \in ones : k <= k2, Len(bits))

\* round the bit string `bits` (bits[1] = 1, of exponent e, followed by a
\* non-zero tail iff sticky) to a double, to nearest, ties to even
RoundToDouble(bits, e, sticky) ==
  LET p == SignificandBits
      padded == bits \o Zeros(p + 1 - Len(bits))
      m == SubSeq(padded, 1, p)
      guard == padded[p + 1]
      rest == sticky \/ \E k \in (p + 2)..Len(padded) : padded[k] = 1
      up == guard = 1 /\ (rest \/ m[p] = 1)
      inc == Increment(m)
  IN IF ~up THEN [m |-> m, e |-> e]
     ELSE IF Len(inc) = p THEN [m |-> inc, e |-> e]
     ELSE [m |-> SubSeq(inc, 1, p), e |-> e + 1]

\* i / n as a double (0 < i < n)
DoubleDiv(i, n) ==
  LET z == LeadingZeros(i, n)
      k == z + SignificandBits + 1
  IN RoundToDouble(SubSeq(FracBits(i, n, k), z + 1, k), -(z + 1),
                   FracRem(i, n, k) # 0)

\* x * 100 as a double
DoubleTimes100(x) ==
  LET width == ProductLimbs * LimbBits
      product ==
        StripZeros(FromLimbs(LimbsTimes(
          ToLimbs(Zeros(width - SignificandBits) \o x.m), 100, 0)))
  IN RoundToDouble(product, x.e + Len(product) - SignificandBits, FALSE)

\* Math.round of a positive double below 2^52: the nearest integer, a tie
\* going up
MathRound(x) ==
  IF x.e < -1 THEN 0
  ELSE IF x.e = -1 THEN 1
  ELSE BitsToNat(SubSeq(x.m, 1, x.e + 1)) + x.m[x.e + 2]

\* Math.round((i / n) * 100), 0 <= i < n
RoundedRatio(i, n) ==
  IF i = 0 THEN 0 ELSE MathRound(DoubleTimes100(DoubleDiv(i, n)))

\* the same, tabulated for the segment counts up to MaxSegments
PercentTable ==
  [n \in 1..MaxSegments |-> [i \in 0..(n - 1) |-> RoundedRatio(i, n)]]

ProgressPercent(i, n) ==
  IF n \in DOMAIN PercentTable THEN PercentTable[n][i] ELSE RoundedRatio(i, n)

\* round(100 * c / n) in exact arithmetic, a tie going up (n >= 1)
RoundedPercent(c, n) == (200 * c + n) \div (2 * n)

(***************************************************************************)
(* Caption payloads.  The provider hands processVideo prose               *)
(* (YouTubeService.parseCaptions strips the paragraph markup, and the mock *)
(* captions are prose), which takes the plain-text branch of parseCaptions.*)
(***************************************************************************)
\* captionText.includes(pattern)
Includes(text, pattern) ==
  \E k \in 1..(Len(text) - Len(pattern) + 1) :
    SubSeq(text, k, k + Len(pattern) - 1) = pattern

(***************************************************************************)
(* CaptionProcessor.parseTimeToSeconds.  A number is [nan, ms]: whether it *)
(* is NaN, and otherwise its value in milliseconds.                        *)
(***************************************************************************)
DigitChars == <<"0", "1", "2", "3", "4", "5", "6", "7", "8", "9">>
IsDigit(c) == \E d \in 1..10 : DigitChars[d] = c
DigitValue(c) == (CHOOSE d \in 1..10 : DigitChars[d] = c) - 1

NaN == [nan |-> TRUE, ms |-> 0]
Number(ms) == [nan |-> FALSE, ms |-> ms]

\* the digits that s begins with
DigitsPrefix(s) ==
  LET others == {k \in 1..Len(s) : ~IsDigit(s[k])}
  IN SubSeq(s, 1, IF others = {} THEN Len(s) ELSE Least(others) - 1)

RECURSIVE NatOf(_)
NatOf(digits) ==
  IF digits = <<>> THEN 0
  ELSE 10 * NatOf(SubSeq(digits, 1, Len(digits) - 1))
       + DigitValue(digits[Len(digits)])

\* parseInt(s || '0') of a string without sign and leading blanks; the
\* value as it is, not in milliseconds
ParseIntOrZero(s) ==
  LET str == IF s = <<>> THEN <<"0">> ELSE s
  IN IF DigitsPrefix(str) = <<>> THEN NaN ELSE Number(NatOf(DigitsPrefix(str)))

\* parseFloat(s) of a string without sign, exponent and leading blanks, and
\* with at most three decimals
ParseFloat(s) ==
  LET whole == DigitsPrefix(s)
      rest == SubSeq(s, Len(whole) + 1, Len(s))
      decimals == IF rest # <<>> /\ rest[1] = "."
                  THEN DigitsPrefix(Tail(rest)) ELSE <<>>
      thousandths == SubSeq(decimals \o <<"0", "0", "0">>, 1, 3)
  IN IF whole = <<>> /\ decimals = <<>> THEN NaN
     ELSE Number(MsPerSec * NatOf(whole) + NatOf(thousandths))

\* timeString.replace('s', '')
WithoutFirst(s, c) ==
  LET at == {k \in 1..Len(s) : s[k] = c}
  IN IF at = {} THEN s
     ELSE SubSeq(s, 1, Least(at) - 1) \o SubSeq(s, Least(at) + 1, Len(s))

parseTimeToSeconds(timeString) ==
  IF \E k \in 1..Len(timeString) : timeString[k] = ":"
  THEN LET parts == SplitEach(timeString, {":"})
           part(i) == IF i <= Len(parts) THEN parts[i] ELSE <<>>
           hours == ParseIntOrZero(part(1))
           minutes == ParseIntOrZero(part(2))
           secondsParts == IF part(3) # <<>>
                           THEN SplitEach(part(3), {",", "."})
                           ELSE <<<<"0">>>>
           seconds == ParseIntOrZero(secondsParts[1])
           milliseconds ==
             ParseIntOrZero(IF Len(secondsParts) >= 2 THEN secondsParts[2]
                            ELSE <<>>)
       IN IF hours.nan \/ minutes.nan \/ seconds.nan \/ milliseconds.nan
          THEN NaN
          ELSE Number(MsPerSec * (hours.ms * 3600 + minutes.ms * 60
                                  + seconds.ms) + milliseconds.ms)
  ELSE IF \E k \in 1..Len(timeString) : timeString[k] = "s"
  THEN ParseFloat(WithoutFirst(timeString, "s"))
  ELSE ParseFloat(timeString)

\* variant: a range that ends where it starts is kept
RangeNotReversed(start, end) ==
  ~start.nan /\ ~end.nan /\ start.ms >= 0 /\ end.ms >= start.ms

\* start >= 0 && end > start
ValidRange(start, end) ==
  ~start.nan /\ ~end.nan /\ start.ms >= 0 /\ end.ms > start.ms

\* variant: an entry is emitted whatever its text
AnyText(text) == TRUE

\* `text &&` in the test of an entry
HasText(text) == text # <<>>

\* the entries of a list of optional entries (<<>> or <<entry>>)
Entries(optional) ==
  LET kept == SelectSeq(optional, LAMBDA e : e # <<>>)
  IN [k \in 1..Len(kept) |-> kept[k][1]]

(***************************************************************************)
(* CaptionProcessor.cleanText                                              *)
(***************************************************************************)
DecodeEntities(s) ==
  ReplaceAll(
    ReplaceAll(
      ReplaceAll(
        ReplaceAll(
          ReplaceAll(s, <<"&", "a", "m", "p", ";">>, <<"&">>),
          <<"&", "l", "t", ";">>, <<"<">>),
        <<"&", "g", "t", ";">>, <<">">>),
      <<"&", "q", "u", "o", "t", ";">>, <<"\"">>),
    <<"&", "#", "3", "9", ";">>, <<"'">>)

cleanText(text) ==
  Trim(CollapseSpaces(RemoveBrackets(DecodeEntities(RemoveTags(text)))))

(***************************************************************************)
(* CaptionProcessor.parseTTML                                              *)
(***************************************************************************)
BeginAttr == <<"b", "e", "g", "i", "n", "=", "\"">>
EndAttr == <<"e", "n", "d", "=", "\"">>
ClosingP == <<"<", "/", "p", ">">>

\* the first position from `from` on that holds c, or 0
FirstOf(s, c, from) ==
  LET at == {k \in from..Len(s) : s[k] = c}
  IN IF at = {} THEN 0 ELSE Least(at)

\* s has no character of `chars` from a to b
Without(s, chars, a, b) == \A k \in a..b : s[k] \notin chars

\* the ways in which pRegex matches at position i: where begin=" and end="
\* stand, with what follows them
PMatches(s, i) ==
  {m \in [b : {k \in (i + 2)..Len(s) : StartsAt(s, k, BeginAttr)},
          e : {k \in (i + 2)..Len(s) : StartsAt(s, k, EndAttr)}] :
     LET q1 == FirstOf(s, "\"", m.b + Len(BeginAttr))
         q2 == FirstOf(s, "\"", m.e + Len(EndAttr))
         g == FirstOf(s, ">", q2 + 1)
         closes == {k \in (g + 1)..Len(s) : StartsAt(s, k, ClosingP)}
     IN /\ StartsAt(s, i, <<"<", "p">>)
        /\ Without(s, {">"}, i + 2, m.b - 1)
        /\ q1 # 0 /\ q1 < m.e
        /\ Without(s, {">"}, q1 + 1, m.e - 1)
        /\ q2 # 0
        /\ g # 0
        /\ closes # {}
        /\ Without(s, LineEndChars, g + 1, Least(closes) - 1)}

\* the match the regular expression takes: its [^>]* are greedy, so begin="
\* stands as far right as it can, and then end="
PMatch(s, i) ==
  LET ms == PMatches(s, i)
      b == Greatest({m.b : m \in ms})
      e == Greatest({m.e : m \in {x \in ms : x.b = b}})
      q1 == FirstOf(s, "\"", b + Len(BeginAttr))
      q2 == FirstOf(s, "\"", e + Len(EndAttr))
      g == FirstOf(s, ">", q2 + 1)
      c == Least({k \in (g + 1)..Len(s) : StartsAt(s, k, ClosingP)})
  IN [begin |-> SubSeq(s, b + Len(BeginAttr), q1 - 1),
      end |-> SubSeq(s, e + Len(EndAttr), q2 - 1),
      content |-> SubSeq(s, g + 1, c - 1),
      lastIndex |-> c + Len(ClosingP)]

TtmlEntry(match) ==
  LET start == parseTimeToSeconds(match.begin)
      end == parseTimeToSeconds(match.end)
      text == cleanText(match.content)
  IN IF HasText(text) /\ ValidRange(start, end)
     THEN <<[start |-> start.ms, end |-> end.ms, text |-> text]>>
     ELSE <<>>

\* the while loop over pRegex.exec
RECURSIVE PMatchesFrom(_, _)
PMatchesFrom(s, from) ==
  LET at == {i \in from..Len(s) : PMatches(s, i) # {}}
  IN IF at = {} THEN <<>>
     ELSE <<TtmlEntry(PMatch(s, Least(at)))>>
          \o PMatchesFrom(s, PMatch(s, Least(at)).lastIndex)

parseTTML(ttmlContent) == Entries(PMatchesFrom(ttmlContent, 1))

(***************************************************************************)
(* CaptionProcessor.parseSRT                                               *)
(***************************************************************************)
\* a line break at i with nothing but white space up to a later line break:
\* where /\n\s*\n/ matches
BlankFrom(s, i) ==
  {j \in (i + 1)..Len(s) :
     s[j] = "\n" /\ \A k \in (i + 1)..(j - 1) : IsSpace(s[k])}

\* srtContent.split(/\n\s*\n/)
RECURSIVE BlocksFrom(_, _)
BlocksFrom(s, from) ==
  LET at == {i \in from..Len(s) : s[i] = "\n" /\ BlankFrom(s, i) # {}}
  IN IF at = {} THEN <<SubSeq(s, from, Len(s))>>
     ELSE <<SubSeq(s, from, Least(at) - 1)>>
          \o BlocksFrom(s, Greatest(BlankFrom(s, Least(at))) + 1)

\* the separator before the milliseconds in the regular expression of the
\* time line
StampSeparators == {","}

\* \d{2}:\d{2}:\d{2},\d{3} at position k
StampAt(line, k) ==
  /\ k >= 1
  /\ k + 11 <= Len(line)
  /\ \A d \in {0, 1, 3, 4, 6, 7, 9, 10, 11} : IsDigit(line[k + d])
  /\ line[k + 2] = ":" /\ line[k + 5] = ":"
  /\ line[k + 8] \in StampSeparators

\* the first position from `from` on that holds no white space
PastSpaces(line, from) ==
  LET at == {k \in from..Len(line) : ~IsSpace(line[k])}
  IN IF at = {} THEN Len(line) + 1 ELSE Least(at)

\* where the second time stamp stands when the time range starts at k
SecondStamp(line, k) ==
  PastSpaces(line, PastSpaces(line, k + 12) + 3)

TimeRangeAt(line, k) ==
  /\ StampAt(line, k)
  /\ StartsAt(line, PastSpaces(line, k + 12), <<"-", "-", ">">>)
  /\ StampAt(line, SecondStamp(line, k))

\* lines[1].match(...): the two time stamps, or <<>>
TimeMatch(line) ==
  LET at == {k \in 1..Len(line) : TimeRangeAt(line, k)}
  IN IF at = {} THEN <<>>
     ELSE <<SubSeq(line, Least(at), Least(at) + 11),
            SubSeq(line, SecondStamp(line, Least(at)),
                   SecondStamp(line, Least(at)) + 11)>>

SrtEntry(block) ==
  LET lines == SplitEach(Trim(block), {"\n"})
      timeMatch == IF Len(lines) >= 3 THEN TimeMatch(lines[2]) ELSE <<>>
      start == parseTimeToSeconds(timeMatch[1])
      end == parseTimeToSeconds(timeMatch[2])
      text == Trim(Join(SubSeq(lines, 3, Len(lines)), <<" ">>))
  IN IF timeMatch # <<>> /\ HasText(text) /\ ValidRange(start, end)
     THEN <<[start |-> start.ms, end |-> end.ms, text |-> text]>>
     ELSE <<>>

parseSRT(srtContent) ==
  LET blocks == BlocksFrom(srtContent, 1)
  IN Entries([k \in 1..Len(blocks) |-> SrtEntry(blocks[k])])

(***************************************************************************)
(* CaptionProcessor.parseCaptions                                          *)
(***************************************************************************)
parseCaptions(captionText) ==
  IF \/ Includes(captionText, <<"<", "p">>)
     \/ Includes(captionText, <<"t", "t", "m", "l">>)
  THEN parseTTML(captionText)
  ELSE IF Includes(captionText, <<"-", "-", ">">>)
  THEN parseSRT(captionText)
  ELSE parsePlainText(captionText)

(***************************************************************************)
(* The state of the server.                                                *)
(***************************************************************************)
VARIABLES
  now,          \* Date.now(), in milliseconds
  ticks,        \* how often the clock has advanced
  progressMap,  \* VideoProcessingService.progressMap, in insertion order:
                \* entries [key, oid, rec], oid the identity of the object
  job,          \* the requests to POST /process, each at its await
  held,         \* the records getProgress has handed to readers
  builder,      \* a call of createSegments, at an iteration of its loop
  call          \* a call of another function of the caption utilities:
                \* its argument, and its results when applied again

vars == <<now, ticks, progressMap, job, held, builder, call>>

\* no function is called
IdleCall == [fn |-> "none", arg |-> <<>>, results |-> <<>>]

\* two requests can be in flight at once
Jobs == {1, 2}

Videos == {"v1", "v2"}
NoVideo == ""

\* request bodies: the URL, and what the validation defaults otherwise
Urls == {"", "https://example.com/clip", "https://youtu.be/v1",
         "https://youtu.be/v2"}

\* VideoService.extractVideoId, on the URLs of the model
extractVideoId(url) ==
  CASE url = "https://youtu.be/v1" -> "v1"
    [] url = "https://youtu.be/v2" -> "v2"
    [] OTHER -> NoVideo

\* the prose the provider returns: none, one sentence, four sentences
Sentence == <<"a", ".">>
ProviderTexts == {Repeat(Sentence, 0), Repeat(Sentence, 1), Repeat(Sentence, 4)}

Bodies ==
  [videoUrl : Urls, segmentDuration : {8}, includeTranslation : BOOLEAN]

NoError == ""
TerminalStatus == {"completed", "failed"}

NoResponse == [code |-> Undefined, success |-> FALSE, error |-> NoError]

IdleJob ==
  [pc |-> "idle", videoId |-> NoVideo, segmentDuration |-> Undefined,
   includeTranslation |-> FALSE, segments |-> <<>>, k |-> 0,
   progressId |-> <<>>, i |-> 0, retryCount |-> 0, wait |-> 0,
   response |-> NoResponse,
   \* history of the job, for the properties
   providerFailed |-> FALSE, log |-> <<>>, attempts |-> 0, completed |-> 0, assigned |-> Undefined,
   announced |-> Undefined,
   \* the invocations of the tool that have been started and have not ended
   inFlight |-> 0]

(***************************************************************************)
(* The progress store: a JavaScript Map from progressId to an object.      *)
(***************************************************************************)
MapHas(map, key) == \E k \in 1..Len(map) : map[k].key = key

MapGet(map, key) == map[CHOOSE k \in 1..Len(map) : map[k].key = key]

\* an object identity for `key` that neither the map nor a reader holds
FreshOid(map, key) ==
  LET used == {map[k].oid : k \in 1..Len(map)}
                \cup {held[k].oid : k \in 1..Len(held)}
  IN <<key, CHOOSE n \in 1..(Cardinality(used) + 1) :
              /\ <<key, n>> \notin used
              /\ \A n2 \in 1..(n - 1) : <<key, n2>> \in used>>

\* Map.prototype.set with a new object: an existing key keeps its place
MapSet(map, key, rec) ==
  LET entry == [key |-> key, oid |-> FreshOid(map, key), rec |-> rec]
  IN IF MapHas(map, key)
     THEN [k \in 1..Len(map) |-> IF map[k].key = key THEN entry ELSE map[k]]
     ELSE Append(map, entry)

\* variant: { ...updates, ...current }
MergeCurrentWins(current, updates) == current

\* { ...current, ...updates }
Merge(current, updates) ==
  [f \in DOMAIN current |->
     IF f \in DOMAIN updates THEN updates[f] ELSE current[f]]

\* variant: the fields of the object in the map are assigned in place
updateProgressInPlace(map, progressId, updates) ==
  [k \in 1..Len(map) |->
     IF map[k].key = progressId
     THEN [map[k] EXCEPT !.rec = Merge(map[k].rec, updates)]
     ELSE map[k]]

\* VideoProcessingService.updateProgress
updateProgress(map, progressId, updates) ==
  IF MapHas(map, progressId)
  THEN MapSet(map, progressId, Merge(MapGet(map, progressId).rec, updates))
  ELSE map

\* the record processSegments registers
InitialProgress(videoId, totalSegments, startTime) ==
  [videoId |-> videoId, status |-> "pending", progress |-> 0,
   currentSegment |-> Undefined, totalSegments |-> totalSegments,
   error |-> NoError, startTime |-> startTime, endTime |-> Undefined]

\* `${videoId}_${Date.now()}`
ProgressId(videoId, time) == <<videoId, time>>

\* VideoProcessingService.getProgress: the first entry of the video, in the
\* iteration order of the Map; <<>> stands for null
getProgress(map, videoId) ==
  LET hits == {k \in 1..Len(map) : map[k].rec.videoId = videoId}
  IN IF hits = {} THEN <<>>
     ELSE <<map[CHOOSE k \in hits : \A k2 \in hits : k <= k2]>>

\* variant: only the entries of jobs that have ended are removed
clearOldEndedProgress(map, time) ==
  SelectSeq(map, LAMBDA e : ~(/\ e.rec.startTime < time - OneHourMs
                              /\ e.rec.status \in TerminalStatus))

\* VideoProcessingService.clearOldProgress
clearOldProgress(map, time) ==
  SelectSeq(map, LAMBDA e : ~(e.rec.startTime < time - OneHourMs))

(***************************************************************************)
(* VideoProcessingService.processSegments and processSegment, and the      *)
(* rest of VideoService.processVideo behind them.  A step runs from one    *)
(* await to the next.  The three tool calls of one attempt (video info,    *)
(* audio, video) change nothing between them and are one step.             *)
(***************************************************************************)
\* variant: the progress is the share of the segments still to do
SegmentUpdateRemaining(i, n) ==
  [currentSegment |-> i + 1, progress |-> ProgressPercent(n - 1 - i, n)]

SegmentUpdate(i, n) ==
  [currentSegment |-> i + 1, progress |-> ProgressPercent(i, n)]

ProcessingUpdate == [status |-> "processing"]

\* variant: the last update leaves the status as it is
CompletedUpdateKeepsStatus(time) == [progress |-> 100, endTime |-> time]

CompletedUpdate(time) ==
  [status |-> "completed", progress |-> 100, endTime |-> time]

\* variant: the catch records the error and leaves the status as it is
FailedUpdateKeepsStatus(message) == [error |-> message]

FailedUpdate(message) == [status |-> "failed", error |-> message]

\* what a write of the job adds to its history: the status it writes, or
\* "segment" when it writes none; nothing when the entry is gone, as
\* updateProgress then does nothing
Logged(map, jr, updates) ==
  IF MapHas(map, jr.progressId)
  THEN Append(jr.log, IF "status" \in DOMAIN updates THEN updates.status
                      ELSE "segment")
  ELSE jr.log

ArtifactUrl(kind, videoId, segment) ==
  <<kind, videoId, segment.startTime, segment.endTime>>

\* processVideo after `await processSegments`: the artifact URLs and the
\* success result; the controller answers res.json(result)
Succeed(jr) ==
  [jr EXCEPT
     !.pc = "done",
     !.segments =
        [x \in 1..Len(jr.segments) |->
           [jr.segments[x] EXCEPT
              !.audioUrl = ArtifactUrl("audio", jr.videoId, jr.segments[x]),
              !.videoUrl = ArtifactUrl("video", jr.videoId, jr.segments[x])]],
     !.response = [code |-> 200, success |-> TRUE, error |-> NoError]]

\* the catch of processSegments: the job is marked failed, and
\* processSegments returns normally
CatchInProcessSegments(j, jr, message) ==
  /\ progressMap' = updateProgress(progressMap, jr.progressId,
                                   FailedUpdate(message))
  /\ job' = [job EXCEPT ![j] =
               Succeed([jr EXCEPT !.log = Logged(progressMap, jr,
                                                 FailedUpdate(message))])]

\* variant: the loop steps over a segment
SkipsSegment(i) == i + 2

\* `i++` of the for loop
NextIndex(i) == i + 1

\* the head of the for loop at index i, on the store `map`: the next
\* segment is announced and attempted, or the job is completed
ForLoop(j, jr, map, i) ==
  LET n == Len(jr.segments) IN
  IF i < n
  THEN /\ progressMap' = updateProgress(map, jr.progressId, SegmentUpdate(i, n))
       /\ job' = [job EXCEPT ![j] =
                    [jr EXCEPT !.pc = "tool", !.i = i, !.retryCount = 0,
                               !.attempts = 1, !.inFlight = @ + 1,
                               !.assigned = SegmentUpdate(i, n).progress,
                               !.announced = SegmentUpdate(i, n).currentSegment,
                               !.log = Logged(map, jr, SegmentUpdate(i, n))]]
  ELSE /\ progressMap' = updateProgress(map, jr.progressId, CompletedUpdate(now))
       /\ job' = [job EXCEPT ![j] =
                    Succeed([jr EXCEPT !.i = n, !.retryCount = 0,
                                       !.attempts = 0,
                                       !.assigned = CompletedUpdate(now).progress,
                                       !.log = Logged(map, jr,
                                                      CompletedUpdate(now))])]

\* processSegments up to `await this.ensureDirectories()`
ProcessSegments(j, jr) ==
  LET id == ProgressId(jr.videoId, now) IN
  /\ progressMap' =
       MapSet(progressMap, id,
              InitialProgress(jr.videoId, Len(jr.segments), now))
  /\ job' = [job EXCEPT ![j] =
               [jr EXCEPT !.pc = "mkdir", !.progressId = id,
                          !.log =
                             <<InitialProgress(jr.videoId, Len(jr.segments),
                                               now).status>>,
                          !.assigned =
                             InitialProgress(jr.videoId, Len(jr.segments),
                                             now).progress]]

\* POST /process: the controller and processVideo up to the first await
Request(j, body) ==
  /\ job[j].pc = "idle"
  /\ \A j2 \in Jobs : j2 < j => job[j2].pc # "idle"
  /\ job' = [job EXCEPT ![j] =
       IF body.videoUrl = ""
       THEN [@ EXCEPT !.pc = "done",
                      !.response = [code |-> 400, success |-> FALSE,
                                    error |-> "Video URL is required"]]
       ELSE IF extractVideoId(body.videoUrl) = NoVideo
       THEN [@ EXCEPT !.pc = "done",
                      !.response = [code |-> 400, success |-> FALSE,
                                    error |-> "Invalid YouTube URL"]]
       ELSE [@ EXCEPT !.pc = "metadata",
                      !.videoId = extractVideoId(body.videoUrl),
                      !.segmentDuration = body.segmentDuration,
                      !.includeTranslation = body.includeTranslation]]
  /\ UNCHANGED <<now, ticks, progressMap, held, builder, call>>

\* `await YouTubeService.getVideoMetadata(videoId)` returns
MetadataReturns(j) ==
  /\ job[j].pc = "metadata"
  /\ job' = [job EXCEPT ![j].pc = "captions"]
  /\ UNCHANGED <<now, ticks, progressMap, held, builder, call>>

\* the API call of getVideoMetadata fails: its catch returns the mock
\* metadata
MetadataFails(j) ==
  /\ job[j].pc = "metadata"
  /\ job' = [job EXCEPT ![j].pc = "captions", ![j].providerFailed = TRUE]
  /\ UNCHANGED <<now, ticks, progressMap, held, builder, call>>

\* YouTubeService.getMockCaptions (the accented e written as e)
getMockCaptions ==
  <<"C", "i", "a", "o", ",", " ", "c", "o", "m", "e", " ", "s", "t", "a",
    "i", "?", " ", "S", "o", "n", "o", " ", "m", "o", "l", "t", "o", " ",
    "f", "e", "l", "i", "c", "e", " ", "d", "i", " ", "v", "e", "d", "e",
    "r", "t", "i", " ", "o", "g", "g", "i", ".", " ", "\n", " ", " ", " ",
    " ", "P", "a", "r", "l", "i", "a", "m", "o", " ", "d", "i", " ", "c",
    "i", "b", "o", " ", "i", "t", "a", "l", "i", "a", "n", "o", ".", " ",
    "M", "i", " ", "p", "i", "a", "c", "e", " ", "m", "o", "l", "t", "o",
    " ", "l", "a", " ", "p", "a", "s", "t", "a", ".", " ", "\n", " ", " ",
    " ", " ", "L", "a", " ", "p", "i", "z", "z", "a", " ", "e", " ", "d",
    "e", "l", "i", "z", "i", "o", "s", "a", ".", " ", "D", "o", "v", "e",
    " ", "v", "a", "i", " ", "d", "o", "m", "a", "n", "i", "?", " ", "\n",
    " ", " ", " ", " ", "V", "a", "d", "o", " ", "a", "l", " ", "c", "i",
    "n", "e", "m", "a", " ", "c", "o", "n", " ", "i", " ", "m", "i", "e",
    "i", " ", "a", "m", "i", "c", "i", ".", " ", "\n", " ", " ", " ", " ",
    "B", "u", "o", "n", "g", "i", "o", "r", "n", "o", "!", " ", "B", "u",
    "o", "n", "a", "s", "e", "r", "a", "!", " ", "G", "r", "a", "z", "i",
    "e", " ", "m", "i", "l", "l", "e", "!", " ", "\n", " ", " ", " ", " ",
    "P", "r", "e", "g", "o", "!", " ", "C", "o", "m", "e", " ", "t", "i",
    " ", "c", "h", "i", "a", "m", "i", "?", " ", "M", "i", " ", "c", "h",
    "i", "a", "m", "o", ".", ".", ".", " ", "\n", " ", " ", " ", " ", "P",
    "i", "a", "c", "e", "r", "e", " ", "d", "i", " ", "c", "o", "n", "o",
    "s", "c", "e", "r", "t", "i", "!", " ", "A", "r", "r", "i", "v", "e",
    "d", "e", "r", "c", "i", "!">>

\* `await YouTubeService.extractCaptions(videoId, 'it')` returns `text`, the
\* provider's captions or, when the provider `failed`, the mock captions:
\* the captions are parsed and cut into segments
CaptionsArrive(j, text, failed) ==
  /\ job[j].pc = "captions"
  /\ LET segments ==
           createSegments(parseCaptions(text),
             [segmentDuration |->
                (IF job[j].segmentDuration = 0 THEN 8
                 ELSE job[j].segmentDuration) * MsPerSec,
              overlap |-> 1 * MsPerSec])
         jr == [job[j] EXCEPT !.segments = segments,
                              !.providerFailed = @ \/ failed]
     IN IF jr.includeTranslation /\ Len(segments) > 0
        THEN /\ job' = [job EXCEPT ![j] = [jr EXCEPT !.pc = "translate", !.k = 1]]
             /\ UNCHANGED progressMap
        ELSE ProcessSegments(j, jr)
  /\ UNCHANGED <<now, ticks, held, builder, call>>

TranslationFailed == "[Translation failed]"

\* variant: a failure marks the segment and every later one
TranslatedOrRestFailed(segments, k, ok) ==
  [m \in 1..Len(segments) |->
     IF ok /\ m = k THEN [segments[m] EXCEPT !.translation = "translated"]
     ELSE IF ~ok /\ m >= k
     THEN [segments[m] EXCEPT !.translation = TranslationFailed]
     ELSE segments[m]]

\* the try / catch around the translation of segment k
Translated(segments, k, ok) ==
  [segments EXCEPT
     ![k].translation = IF ok THEN "translated" ELSE TranslationFailed]

CaptionsReturn(j, text) == CaptionsArrive(j, text, FALSE)

\* an API call of extractCaptions fails: its catch returns the mock captions
CaptionsFail(j) == CaptionsArrive(j, getMockCaptions, TRUE)

\* `await TranslationService.translate(...)` returns or throws for segment k
TranslationReturns(j, ok) ==
  /\ job[j].pc = "translate"
  /\ LET jr == [job[j] EXCEPT
                  !.segments = Translated(job[j].segments, job[j].k, ok)]
     IN IF jr.k < Len(jr.segments)
        THEN /\ job' = [job EXCEPT ![j] = [jr EXCEPT !.k = @ + 1]]
             /\ UNCHANGED progressMap
        ELSE ProcessSegments(j, jr)
  /\ UNCHANGED <<now, ticks, held, builder, call>>

\* `await this.ensureDirectories()` returns or throws
EnsureDirectoriesReturns(j, ok) ==
  /\ job[j].pc = "mkdir"
  /\ IF ok
     THEN ForLoop(j, [job[j] EXCEPT
                        !.log = Logged(progressMap, job[j],
                                       ProcessingUpdate)],
                  updateProgress(progressMap, job[j].progressId,
                                 ProcessingUpdate),
                  0)
     ELSE CatchInProcessSegments(j, job[j], "mkdir failed")
  /\ UNCHANGED <<now, ticks, held, builder, call>>

\* variant: one more retry is granted
RetriesLeftInclusive(retryCount) == retryCount <= maxRetries

\* `if (retryCount < maxRetries)` in the catch of processSegment
RetriesLeft(retryCount) == retryCount < maxRetries

\* one attempt of processSegment ends: the tool has produced both clips, or
\* one of its calls has thrown
ToolReturns(j, ok) ==
  /\ job[j].pc = "tool"
  /\ LET jr == [job[j] EXCEPT !.inFlight = @ - 1] IN
     IF ok
     THEN ForLoop(j, [jr EXCEPT !.completed = @ + 1], progressMap,
                  NextIndex(jr.i))
     ELSE IF RetriesLeft(jr.retryCount)
     THEN /\ job' = [job EXCEPT ![j] =
                       [jr EXCEPT !.pc = "backoff",
                                  !.wait = 2000 * (jr.retryCount + 1)]]
          /\ UNCHANGED progressMap
     ELSE CatchInProcessSegments(j, jr, "yt-dlp processing error")
  /\ UNCHANGED <<now, ticks, held, builder, call>>

\* the timer of the retry fires: processSegment(videoId, segment, retryCount + 1)
BackoffElapsed(j) ==
  /\ job[j].pc = "backoff"
  /\ job' = [job EXCEPT ![j].pc = "tool", ![j].retryCount = @ + 1,
                        ![j].attempts = @ + 1, ![j].wait = 0,
                        ![j].inFlight = @ + 1]
  /\ UNCHANGED <<now, ticks, progressMap, held, builder, call>>

\* GET /progress/:videoId: a reader obtains the record, if there is one
GetProgress(videoId) ==
  /\ Len(held) < MaxReads
  /\ LET found == getProgress(progressMap, videoId)
     IN /\ found # <<>>
        /\ held' = Append(held, [oid |-> found[1].oid, snap |-> found[1].rec])
  /\ UNCHANGED <<now, ticks, progressMap, job, builder, call>>

\* VideoProcessingService.clearOldProgress()
ClearOldProgress ==
  /\ progressMap' = clearOldProgress(progressMap, now)
  /\ UNCHANGED <<now, ticks, job, held, builder, call>>

\* time passes: a millisecond, or an hour
Tick(d) ==
  /\ ticks < MaxTicks
  /\ now' = now + d
  /\ ticks' = ticks + 1
  /\ UNCHANGED <<progressMap, job, held, builder, call>>

(***************************************************************************)
(* A call of CaptionProcessor.createSegments, one iteration of its while   *)
(* loop at a time.                                                         *)
(***************************************************************************)
FirstWindow == [currentTime |-> 0, segmentId |-> 1, segments |-> <<>>]

IdleBuilder ==
  [pc |-> "idle", captions |-> <<>>, options |-> DefaultOptions,
   st |-> FirstWindow,
   \* history of the call, for the properties: the nominal start of the
   \* windows examined, and of those that had captions and pushed nothing
   windows |-> <<>>, dropped |-> <<>>]

\* createSegments(captions, options) is entered
CalledBuilder(captions, options) ==
  [IdleBuilder EXCEPT !.pc = "loop", !.captions = captions,
                      !.options = options]

\* the condition of the while loop, after `if (captions.length === 0) return`
BuilderLoops ==
  /\ Len(builder.captions) > 0
  /\ WindowLoopRuns(builder.captions, builder.st)

\* the body of the while loop runs once
WindowIteration ==
  /\ builder.pc = "loop"
  /\ BuilderLoops
  /\ LET o == WithDefaults(builder.options)
         sortedCaptions == SortByStart(builder.captions)
         st == WindowStep(builder.captions, sortedCaptions, o, builder.st)
         pushed == Len(st.segments) > Len(builder.st.segments)
         found == Len(WindowCaptions(builder.captions, sortedCaptions, o,
                                     builder.st)) > 0
     IN builder' =
          [builder EXCEPT
             !.st = st,
             !.windows = Append(@, builder.st.currentTime),
             !.dropped = IF found /\ ~pushed
                         THEN Append(@, builder.st.currentTime) ELSE @]
  /\ UNCHANGED <<now, ticks, progressMap, job, held, call>>

\* `return segments`
CreateSegmentsReturns ==
  /\ builder.pc = "loop"
  /\ ~BuilderLoops
  /\ builder' = [builder EXCEPT !.pc = "done"]
  /\ UNCHANGED <<now, ticks, progressMap, job, held, call>>

Init ==
  /\ now = 0
  /\ ticks = 0
  /\ progressMap = <<>>
  /\ job = [j \in Jobs |-> IdleJob]
  /\ held = <<>>
  /\ builder = IdleBuilder
  /\ call = IdleCall

\* one request at a time: the whole pipeline, with readers of the store
Next ==
  \/ \E body \in Bodies : Request(1, body)
  \/ MetadataReturns(1)
  \/ \E text \in ProviderTexts : CaptionsReturn(1, text)
  \/ \E ok \in BOOLEAN : TranslationReturns(1, ok)
  \/ \E ok \in BOOLEAN : EnsureDirectoriesReturns(1, ok)
  \/ \E ok \in BOOLEAN : ToolReturns(1, ok)
  \/ BackoffElapsed(1)
  \/ \E v \in Videos : GetProgress(v)
  \/ ClearOldProgress
  \/ \E d \in {1, OneHourMs} : Tick(d)

Spec == Init /\ [][Next]_vars

\* two requests in flight, for videos with no or two segments, without
\* translation; the first request is the one for v1
PairBodies ==
  {b \in Bodies : ~b.includeTranslation /\ extractVideoId(b.videoUrl) # NoVideo}

PairTexts == {Repeat(Sentence, 0), Repeat(Sentence, 4)}

NextPair ==
  \/ \E j \in Jobs, body \in PairBodies :
       /\ j = 1 => extractVideoId(body.videoUrl) = "v1"
       /\ Request(j, body)
  \/ \E j \in Jobs : MetadataReturns(j)
  \/ \E j \in Jobs, text \in PairTexts : CaptionsReturn(j, text)
  \/ \E j \in Jobs, ok \in BOOLEAN : EnsureDirectoriesReturns(j, ok)
  \/ \E j \in Jobs, ok \in BOOLEAN : ToolReturns(j, ok)
  \/ \E j \in Jobs : BackoffElapsed(j)
  \/ ClearOldProgress
  \/ \E d \in {1, OneHourMs} : Tick(d)

SpecPair == Init /\ [][NextPair]_vars

(***************************************************************************)
(* One job with up to 40 segments: prose cut at 3 seconds; 27 sentences    *)
(* give 40 segments.                                                       *)
(***************************************************************************)
LongTexts ==
  {Repeat(Sentence, 0), Repeat(Sentence, 1), Repeat(Sentence, 2),
   Repeat(Sentence, 5), Repeat(Sentence, 27)}

LongBody ==
  [videoUrl |-> "https://youtu.be/v1", segmentDuration |-> 3,
   includeTranslation |-> FALSE]

NextLong ==
  \/ Request(1, LongBody)
  \/ MetadataReturns(1)
  \/ \E text \in LongTexts : CaptionsReturn(1, text)
  \/ \E ok \in BOOLEAN : EnsureDirectoriesReturns(1, ok)
  \/ \E ok \in BOOLEAN : ToolReturns(1, ok)
  \/ BackoffElapsed(1)

SpecLong == Init /\ [][NextLong]_vars

(***************************************************************************)
(* createSegments on its own, on every list of up to MaxCaptions entries   *)
(* over a grid of times and every options value of BuilderOptions.         *)
(***************************************************************************)
TextA == <<"c", "i", "a", "o">>
TextB == <<"b", "e", "n", "e">>
TextC == <<"s", "i">>

BuilderTexts == <<TextA, TextB, TextC>>

BuilderTimes == {0, 3000, 5000, 7000, 10000, 12000}

\* the k-th entry of a list carries the k-th text; as the parsers leave
\* them, start >= 0 and end > start
BuilderCaptions ==
  UNION {[1..n -> {c \in [start : BuilderTimes, end : BuilderTimes] :
                     c.end > c.start}] : n \in 0..MaxCaptions}

WithTexts(times) ==
  [k \in 1..Len(times) |->
     [start |-> times[k].start, end |-> times[k].end,
      text |-> BuilderTexts[((k - 1) % Len(BuilderTexts)) + 1]]]

\* options with and without a minSegmentDuration of their own
BuilderOptions ==
  [segmentDuration : {3000, 8000}, overlap : {0, 1000}]
    \cup [segmentDuration : {3000, 8000}, overlap : {0, 1000},
          minSegmentDuration : {2000, 5000}]
    \cup {[segmentDuration |-> 8000, overlap |-> 5000]}

InitSeg ==
  /\ now = 0
  /\ ticks = 0
  /\ progressMap = <<>>
  /\ job = [j \in Jobs |-> IdleJob]
  /\ held = <<>>
  /\ \E times \in BuilderCaptions, options \in BuilderOptions :
       builder = CalledBuilder(WithTexts(times), options)
  /\ call = IdleCall

NextSeg ==
  \/ WindowIteration
  \/ CreateSegmentsReturns

SpecSeg == InitSeg /\ [][NextSeg]_vars

(***************************************************************************)
(* createSegments on one entry from 0 to 3 seconds, for every trimmed text *)
(* of up to MaxChars characters over words, spaces and sentence marks, and *)
(* for four sentences of ten words; with a word limit of its own.          *)
(***************************************************************************)
TextAlphabet == {"a", " ", ".", "?"}

TenWords == Join([k \in 1..10 |-> <<"a">>], <<" ">>)

FourSentences == Join([k \in 1..4 |-> TenWords \o <<".">>], <<" ">>)

\* as the parsers leave a text: trimmed and not empty
WordTexts ==
  {t \in UNION {[1..n -> TextAlphabet] : n \in 1..MaxChars} : Trim(t) = t}
    \cup {FourSentences}

WordOptions ==
  [segmentDuration : {8000}, overlap : {1000},
   maxWordsPerSegment : {1, 2, 3, 20}, preferSentenceBoundaries : BOOLEAN]

InitWords ==
  /\ now = 0
  /\ ticks = 0
  /\ progressMap = <<>>
  /\ job = [j \in Jobs |-> IdleJob]
  /\ held = <<>>
  /\ \E text \in WordTexts, options \in WordOptions :
       builder = CalledBuilder(<<[start |-> 0, end |-> 3000, text |-> text]>>,
                               options)
  /\ call = IdleCall

SpecWords == InitWords /\ [][NextSeg]_vars

(***************************************************************************)
(* Properties.                                                             *)
(***************************************************************************)
Last(seq) == seq[Len(seq)]

\* the job has registered a progress entry
Registered(j) == job[j].progressId # <<>>

InStore(j) == Registered(j) /\ MapHas(progressMap, job[j].progressId)

Rec(j) == MapGet(progressMap, job[j].progressId).rec

\* no other request has generated the same progressId
SoleOwner(j) ==
  \A j2 \in Jobs \ {j} : job[j2].progressId # job[j].progressId

Answered(j) == job[j].response # NoResponse

\* processSegments has ended in its catch after a segment used up its retries
SegmentFailed(j) == job[j].pc = "done" /\ job[j].attempts >= 1

\* the status the writes of the history leave in the record
RECURSIVE StatusOf(_)
StatusOf(log) ==
  IF Last(log) # "segment" THEN Last(log)
  ELSE StatusOf(SubSeq(log, 1, Len(log) - 1))

\* C1: a request whose job has failed on a segment, and whose record is
\* `failed`, is not answered with the success result.
C1_ExtractionFailureIsFatal ==
  \A j \in Jobs :
    (SegmentFailed(j) /\ InStore(j) /\ Rec(j).status = "failed")
      => ~job[j].response.success

\* C2: when a job fails on a segment, the tool has been attempted
\* maxRetries + 1 = 4 times for that segment (the first attempt and three
\* retries), and the currentSegment the job has announced, and that of its
\* own record, is the 1-based index of that segment.
C2_FourAttempts ==
  \A j \in Jobs :
    SegmentFailed(j) =>
      /\ job[j].attempts = maxRetries + 1
      /\ job[j].announced = job[j].i + 1
      /\ (InStore(j) /\ SoleOwner(j)) =>
            /\ Rec(j).status = "failed"
            /\ Rec(j).currentSegment = job[j].i + 1

\* a job has failed on its second segment, and its record shows it
C2_SecondSegmentFails ==
  \E j \in Jobs :
    /\ SegmentFailed(j) /\ job[j].i = 1
    /\ InStore(j) /\ SoleOwner(j) /\ Rec(j).status = "failed"

\* C2 as stated: a job fails on a segment after exactly 3 attempts.
C2_ThreeAttempts ==
  \A j \in Jobs : SegmentFailed(j) => job[j].attempts = 3

\* the statuses a job may write, in order
LifecycleOrder(log) ==
  /\ Len(log) >= 1 => log[1] = "pending"
  /\ \A k \in 2..Len(log) : log[k] # "pending"
  /\ \A k \in 1..Len(log) : log[k] = "processing" => k = 2
  /\ \A k \in 1..Len(log) :
       log[k] \in {"segment", "completed"} => (k > 2 /\ log[2] = "processing")
  /\ \A k \in 1..Len(log) : log[k] \in TerminalStatus => k = Len(log)

\* C3: the statuses a job writes to its record are pending, then processing
\* unless the output directories cannot be created, then completed or
\* failed; a terminal status is written at most once, as the last write of
\* the job, and it is written if the job's own entry is in the store when
\* the job ends; the record of a job that owns its entry shows the last
\* status written.
C3_Lifecycle ==
  \A j \in Jobs :
    /\ LifecycleOrder(job[j].log)
    /\ (InStore(j) /\ SoleOwner(j)) =>
          /\ Rec(j).status = StatusOf(job[j].log)
          /\ job[j].pc = "done" => Last(job[j].log) \in TerminalStatus

\* a job whose directories could not be created: failed follows pending
C3_FailedAfterPending ==
  \E j \in Jobs :
    /\ job[j].pc = "done" /\ job[j].log = <<"pending", "failed">>
    /\ InStore(j) /\ Rec(j).status = "failed"

\* C3 as stated: processing is written before any terminal status.
C3_ProcessingBeforeTerminal ==
  \A j \in Jobs : \A k \in 1..Len(job[j].log) :
    job[j].log[k] \in TerminalStatus =>
      \E k2 \in 1..(k - 1) : job[j].log[k2] = "processing"

\* C4: a request that has started a job is answered only when the job has
\* ended: once it is answered, the record of a job that owns its entry is
\* completed or failed, never pending or processing.
C4_AnsweredAfterExtraction ==
  \A j \in Jobs :
    (Answered(j) /\ InStore(j) /\ SoleOwner(j)) =>
      Rec(j).status \in TerminalStatus

\* a request is answered with its record completed after two segments
C4_AnsweredCompleted ==
  \E j \in Jobs :
    /\ Answered(j) /\ job[j].response.success
    /\ InStore(j) /\ Rec(j).status = "completed"
    /\ Len(job[j].segments) = 2

\* C4 as stated: when a request that has started a job is answered, the
\* job's record is still pending or processing.
C4_AcknowledgedBeforeFinished ==
  [][\A j \in Jobs :
       (~Answered(j) /\ Answered(j)' /\ InStore(j)' /\ SoleOwner(j)')
         => Rec(j)'.status \in {"pending", "processing"}]_vars

\* the entries of a video in the store
EntriesOf(videoId) ==
  {k \in 1..Len(progressMap) : progressMap[k].rec.videoId = videoId}

\* C5: getProgress(videoId) is null when the store has no entry of the
\* video, and otherwise the record of the entry that started last.
C5_MostRecentJob ==
  \A v \in Videos :
    LET found == getProgress(progressMap, v) IN
    IF EntriesOf(v) = {} THEN found = <<>>
    ELSE /\ found # <<>>
         /\ \A k \in EntriesOf(v) :
              progressMap[k].rec.startTime <= found[1].rec.startTime

\* a record as one write of a job leaves it
CompleteWrite(rec) ==
  /\ rec.status = "pending" =>
       /\ rec.progress = 0
       /\ rec.currentSegment = Undefined
  /\ rec.status = "processing" =>
       /\ rec.currentSegment \in 1..rec.totalSegments
       /\ rec.progress =
            SegmentUpdate(rec.currentSegment - 1, rec.totalSegments).progress
  /\ rec.status = "completed" <=> rec.endTime # Undefined
  /\ rec.status = "completed" => rec.progress = 100
  /\ rec.status = "failed" <=> rec.error # NoError

\* C6: with one job writing, a record a reader has obtained is a record as
\* one write left it, and it stays as it was handed out: while the object
\* is still in the store it has the same fields, and a later update has
\* put another object in its place.
C6_SnapshotsStable ==
  \A x \in 1..Len(held) :
    /\ CompleteWrite(held[x].snap)
    /\ \A k \in 1..Len(progressMap) :
         progressMap[k].oid = held[x].oid => progressMap[k].rec = held[x].snap

\* a reader holds a record of a job in progress that the job has since
\* replaced
C6_ReaderHoldsOlderRecord ==
  \E x \in 1..Len(held) : \E k \in 1..Len(progressMap) :
    /\ held[x].snap.status = "processing"
    /\ progressMap[k].key = held[x].oid[1]
    /\ progressMap[k].oid # held[x].oid
    /\ progressMap[k].rec # held[x].snap

\* C7: the progress a job writes never decreases from one write to the
\* next, and neither does the progress in the record of a job that owns
\* its entry.
C7_ProgressNeverDecreases ==
  [][\A j \in Jobs :
       /\ Registered(j) => job[j].assigned' >= job[j].assigned
       /\ (InStore(j) /\ InStore(j)' /\ SoleOwner(j)') =>
             Rec(j)'.progress >= Rec(j).progress]_vars

\* a job of 40 segments has completed: its progress has gone up to 100
C7_LongJobCompleted ==
  \E j \in Jobs :
    /\ job[j].pc = "done" /\ Len(job[j].segments) = MaxSegments
    /\ job[j].completed = MaxSegments
    /\ InStore(j) /\ Rec(j).progress = 100

\* C8: the progress of a registered job of n >= 1 segments, c of them
\* extracted, is 100 * c / n rounded to the nearest integer, and while a
\* segment is attempted currentSegment is its 1-based index.
C8_ProgressIsRoundedShare ==
  \A j \in Jobs :
    (InStore(j) /\ Len(job[j].segments) >= 1) =>
      /\ Rec(j).progress = RoundedPercent(job[j].completed, Len(job[j].segments))
      /\ job[j].pc \in {"tool", "backoff"} =>
            Rec(j).currentSegment = job[j].i + 1

\* the floor of the call at hand
BuilderFloor == WithDefaults(builder.options).minSegmentDuration

\* the clipped length of the window at `currentTime`, which has captions
ClippedLength(currentTime) ==
  LET o == WithDefaults(builder.options)
      st == [builder.st EXCEPT !.currentTime = currentTime]
      segmentCaptions ==
        WindowCaptions(builder.captions, SortByStart(builder.captions), o, st)
  IN ActualEnd(segmentCaptions, SegmentEnd(builder.captions, o, st))
       - ActualStart(segmentCaptions, st)

\* C9: no segment of createSegments is shorter than minSegmentDuration, and
\* the windows with captions that pushed nothing are those whose clipped
\* bounds are closer than minSegmentDuration.
C9_DurationFloor ==
  /\ \A k \in 1..Len(builder.st.segments) :
       builder.st.segments[k].endTime - builder.st.segments[k].startTime
         >= BuilderFloor
  /\ \A k \in 1..Len(builder.dropped) :
       ClippedLength(builder.dropped[k]) < BuilderFloor

\* a call has returned segments and has dropped a window below the floor
C9_WindowDropped ==
  /\ builder.pc = "done"
  /\ Len(builder.st.segments) >= 1
  /\ Len(builder.dropped) >= 1

\* the entries {0,5} and {5,10}, cut with segmentDuration 8 and overlap 1
\* and the default floor of 3
TwoAbuttingEntries ==
  /\ builder.captions =
       WithTexts(<<[start |-> 0, end |-> 5000], [start |-> 5000, end |-> 10000]>>)
  /\ builder.options = [segmentDuration |-> 8000, overlap |-> 1000]

\* C10: for the entries {0,5} and {5,10} and the default options,
\* createSegments returns two segments: the first from 0 to 8 with both
\* texts joined, the second from 7 to 10 with the text of the second entry.
C10_TwoSegments ==
  (TwoAbuttingEntries /\ builder.pc = "done") =>
    LET segments == builder.st.segments IN
    /\ Len(segments) = 2
    /\ segments[1].id = 1
    /\ segments[1].startTime = 0 /\ segments[1].endTime = 8000
    /\ segments[1].text = TextA \o <<" ">> \o TextB
    /\ segments[2].id = 2
    /\ segments[2].startTime = 7000 /\ segments[2].endTime = 10000
    /\ segments[2].text = TextB

\* the call on the two abutting entries has returned
C10_AbuttingEntriesCut == TwoAbuttingEntries /\ builder.pc = "done"

\* C10 as stated: one segment, from 0 to 10, with both texts joined.
C10_OneSegment ==
  (TwoAbuttingEntries /\ builder.pc = "done") =>
    LET segments == builder.st.segments IN
    /\ Len(segments) = 1
    /\ segments[1].startTime = 0 /\ segments[1].endTime = 10000
    /\ segments[1].text = TextA \o <<" ">> \o TextB

\* the call at hand has segmentDuration 8 and overlap 1
EightOneOptions ==
  /\ WithDefaults(builder.options).segmentDuration = 8000
  /\ WithDefaults(builder.options).overlap = 1000

\* the window of the call at hand that starts at `currentTime` overlaps a
\* caption
WindowHasCaptions(currentTime) ==
  LET o == WithDefaults(builder.options)
      st == [builder.st EXCEPT !.currentTime = currentTime]
  IN Len(WindowCaptions(builder.captions, SortByStart(builder.captions),
                        o, st)) > 0

\* C11: with segmentDuration 8 and overlap 1, the nominal starts of two
\* consecutive windows differ by 7 when the earlier window overlaps a
\* caption, and by 8 when it overlaps none.
C11_WindowAdvance ==
  EightOneOptions =>
    \A k \in 1..(Len(builder.windows) - 1) :
      builder.windows[k + 1] - builder.windows[k] =
        IF WindowHasCaptions(builder.windows[k]) THEN 7000 ELSE 8000

\* a call with segmentDuration 8 and overlap 1 has examined a window
\* without captions and then another window
C11_GapThenWindow ==
  /\ EightOneOptions
  /\ \E k \in 1..(Len(builder.windows) - 1) :
       ~WindowHasCaptions(builder.windows[k])

\* C11 as stated: the nominal starts of two consecutive windows differ by 7.
C11_AlwaysSeven ==
  EightOneOptions =>
    \A k \in 1..(Len(builder.windows) - 1) :
      builder.windows[k + 1] - builder.windows[k] = 7000

\* the entries of the call at hand have distinct start times
DistinctStarts ==
  \A a, b \in 1..Len(builder.captions) :
    a # b => builder.captions[a].start # builder.captions[b].start

\* C12: for entries with distinct start times, the startTime values of the
\* segments of createSegments never decrease in the order of emission, and
\* each lies between 0 and the greatest end of an entry.
C12_StartsOrdered ==
  DistinctStarts =>
    LET segments == builder.st.segments IN
    /\ \A k \in 1..(Len(segments) - 1) :
         segments[k].startTime <= segments[k + 1].startTime
    /\ \A k \in 1..Len(segments) :
         /\ 0 <= segments[k].startTime
         /\ segments[k].startTime <= MaxEnd(builder.captions)

\* a call on entries given out of order has returned several segments
C12_UnsortedEntriesCut ==
  /\ builder.pc = "done"
  /\ DistinctStarts
  /\ Len(builder.captions) = 2
  /\ builder.captions[1].start > builder.captions[2].start
  /\ Len(builder.st.segments) >= 2
  /\ builder.st.segments[1].startTime < builder.st.segments[2].startTime

\* the words of a text, without the sentence marks
WordsOf(text) ==
  SelectSeq(SplitRuns(text, SpaceChars \cup SentenceEndChars),
            LAMBDA w : w # <<>>)

\* the sentences of a text: what lies between the sentence marks, trimmed
SentencesOf(text) ==
  SelectSeq([k \in 1..Len(SplitSentences(text)) |->
               Trim(SplitSentences(text)[k])],
            LAMBDA x : x # <<>>)

\* the words of the first m of the sentences
RECURSIVE WordsOfFirst(_, _)
WordsOfFirst(sentences, m) ==
  IF m = 0 THEN <<>>
  ELSE WordsOfFirst(sentences, m - 1) \o WordsOf(sentences[m])

\* the most sentences, from the first on, that have at most maxWords words
LongestFit(sentences, maxWords) ==
  CHOOSE m \in 0..Len(sentences) :
    /\ Len(WordsOfFirst(sentences, m)) <= maxWords
    /\ \A m2 \in (m + 1)..Len(sentences) :
         Len(WordsOfFirst(sentences, m2)) > maxWords

\* the combined text of the one entry of the call at hand
CombinedText == Trim(CollapseSpaces(builder.captions[1].text))

\* C13: the text of the segment cut from one entry is the combined text,
\* unless that has more than maxWordsPerSegment words and
\* preferSentenceBoundaries is set and the first sentence fits: then its
\* words are those of the most whole sentences, from the first on, that
\* have at most maxWordsPerSegment words.
C13_LongestSentencePrefix ==
  (builder.pc = "done" /\ Len(builder.captions) = 1
     /\ Len(builder.st.segments) = 1) =>
    LET o == WithDefaults(builder.options)
        emitted == builder.st.segments[1].text
        sentences == SentencesOf(CombinedText)
        fit == LongestFit(sentences, o.maxWordsPerSegment)
    IN IF WordCount(CombinedText) > o.maxWordsPerSegment
          /\ o.preferSentenceBoundaries /\ fit >= 1
       THEN WordsOf(emitted) = WordsOfFirst(sentences, fit)
       ELSE emitted = CombinedText

(***************************************************************************)
(* CaptionProcessor.mergeAdjacentSegments, applied to a list of segments   *)
(* and again to its result.                                                *)
(***************************************************************************)
\* if (next.startTime - current.endTime <= 2)
CloseEnough(current, next) == next.startTime - current.endTime <= 2 * MsPerSec

\* the merge of `next` into `current`
MergeInto(current, next) ==
  [current EXCEPT
     !.endTime = next.endTime,
     !.text = Trim(CollapseSpaces(current.text \o <<" ">> \o next.text))]

\* variant: the segment at hand is not pushed at the end
ForgetsCurrent(merged, current) == merged

\* merged.push(current) behind the loop
PushCurrent(merged, current) == Append(merged, current)

RECURSIVE MergeLoop(_, _, _, _)
MergeLoop(segments, i, merged, current) ==
  IF i > Len(segments) THEN PushCurrent(merged, current)
  ELSE IF CloseEnough(current, segments[i])
  THEN MergeLoop(segments, i + 1, merged, MergeInto(current, segments[i]))
  ELSE MergeLoop(segments, i + 1, Append(merged, current), segments[i])

mergeAdjacentSegments(segments) ==
  IF Len(segments) <= 1 THEN segments
  ELSE MergeLoop(segments, 2, <<>>, segments[1])

\* what the function is applied to next: the argument, or the last result
Operand == IF call.results = <<>> THEN call.arg ELSE Last(call.results)

\* mergeAdjacentSegments returns; it is applied at most twice
MergeAdjacentReturns ==
  /\ call.fn = "mergeAdjacentSegments"
  /\ Len(call.results) < 2
  /\ call' = [call EXCEPT !.results = Append(@, mergeAdjacentSegments(Operand))]
  /\ UNCHANGED <<now, ticks, progressMap, job, held, builder>>

\* segments in any order, also ones that end before they start; the second
\* text is neither trimmed nor collapsed
MergeTimes == {0, 2000, 3000, 6000}

MergeTexts == <<TextA, <<" ", "b", " ", " ", "e">>, TextC>>

MergeLists ==
  UNION {[1..n -> [startTime : MergeTimes, endTime : MergeTimes]] :
           n \in 0..MaxMerged}

AsSegments(times) ==
  [k \in 1..Len(times) |->
     [id |-> k, startTime |-> times[k].startTime, endTime |-> times[k].endTime,
      text |-> MergeTexts[((k - 1) % Len(MergeTexts)) + 1],
      translation |-> "", audioUrl |-> <<>>, videoUrl |-> <<>>]]

InitMerge ==
  /\ now = 0
  /\ ticks = 0
  /\ progressMap = <<>>
  /\ job = [j \in Jobs |-> IdleJob]
  /\ held = <<>>
  /\ builder = IdleBuilder
  /\ \E times \in MergeLists :
       call = [fn |-> "mergeAdjacentSegments", arg |-> AsSegments(times),
               results |-> <<>>]

NextMerge == MergeAdjacentReturns

SpecMerge == InitMerge /\ [][NextMerge]_vars

\* C14: mergeAdjacentSegments applied to its own result returns a list of
\* the same length with the same startTime, endTime and text in every
\* segment.
C14_MergeIdempotent ==
  (call.fn = "mergeAdjacentSegments" /\ Len(call.results) = 2) =>
    /\ Len(call.results[2]) = Len(call.results[1])
    /\ \A k \in 1..Len(call.results[1]) :
         /\ call.results[2][k].startTime = call.results[1][k].startTime
         /\ call.results[2][k].endTime = call.results[1][k].endTime
         /\ call.results[2][k].text = call.results[1][k].text

\* a list of three segments given out of order has been merged into two,
\* and those have been merged again
C14_MergedTwice ==
  /\ call.fn = "mergeAdjacentSegments" /\ Len(call.results) = 2
  /\ Len(call.arg) = 3 /\ Len(call.results[1]) = 2
  /\ call.arg[1].startTime > call.arg[2].startTime

(***************************************************************************)
(* The segment utilities of the client: cleanText, assessSegmentQuality    *)
(* and optimizeSegments, applied to a list of segments and again to the    *)
(* result.  The score is a double, computed by subtraction as the code     *)
(* does.                                                                   *)
(***************************************************************************)
\* a double on a fixed-point grid: bit k has exponent 1 - k
FixedBits == 60

Fixed(x) ==
  [k \in 1..FixedBits |->
     LET j == x.e + k
     IN IF j >= 1 /\ j <= SignificandBits THEN x.m[j] ELSE 0]

BitsLess(a, b) ==
  \E j \in 1..Len(a) : a[j] < b[j] /\ \A i \in 1..(j - 1) : a[i] = b[i]

\* a - b for a >= b
BitsMinus(a, b) ==
  [k \in 1..Len(a) |->
     LET borrow == IF BitsLess(SubSeq(a, k + 1, Len(a)),
                               SubSeq(b, k + 1, Len(b))) THEN 1 ELSE 0
     IN (a[k] + 2 - b[k] - borrow) % 2]

DoubleZero == [m |-> Zeros(SignificandBits), e |-> 0]
DoubleOne == [m |-> <<1>> \o Zeros(SignificandBits - 1), e |-> 0]

DoubleLess(x, y) == BitsLess(Fixed(x), Fixed(y))

\* x - y as a double (x >= y >= 0)
DoubleMinus(x, y) ==
  LET d == StripZeros(BitsMinus(Fixed(x), Fixed(y)))
  IN IF d = <<>> THEN DoubleZero
     ELSE RoundToDouble(d, Len(d) - FixedBits, FALSE)

\* Math.max(0, score)
MaxWithZero(x) == IF DoubleLess(x, DoubleZero) THEN DoubleZero ELSE x

\* the decimal literals of the scoring, as doubles
TooShortPenalty == DoubleDiv(1, 5)       \* 0.2
TooLongPenalty == DoubleDiv(1, 10)       \* 0.1
FewWordsPenalty == DoubleDiv(3, 10)      \* 0.3
ManyWordsPenalty == DoubleDiv(1, 10)     \* 0.1
NoTranslationPenalty == DoubleDiv(1, 5)  \* 0.2
FormattingPenalty == DoubleDiv(1, 10)    \* 0.1
GoodScore == DoubleDiv(4, 5)             \* 0.8

\* cleanText of the client utilities
cleanTextOfClient(text) == Trim(CollapseSpaces(RemoveBrackets(RemoveTags(text))))

\* /[{}[\]()<>]/
FormattingChars == {"{", "}", "[", "]", "(", ")", "<", ">"}

TranslationNeeded == "[Translation needed]"

\* the issues found in a segment
Issues(segment) ==
  LET duration == segment.endTime - segment.startTime
      wordCount == WordCount(segment.text)
  IN (IF duration < 3 * MsPerSec THEN {"Segment too short"}
      ELSE IF duration > 15 * MsPerSec THEN {"Segment too long"} ELSE {})
     \cup (IF wordCount < 3 THEN {"Text too short"}
           ELSE IF wordCount > 25 THEN {"Text too long"} ELSE {})
     \cup (IF segment.translation = "" THEN {"Missing translation"} ELSE {})
     \cup (IF \E k \in 1..Len(segment.text) : segment.text[k] \in FormattingChars
           THEN {"Contains formatting characters"} ELSE {})

Penalised(score, issues, issue, penalty) ==
  IF issue \in issues THEN DoubleMinus(score, penalty) ELSE score

\* the score of a set of issues, the penalties subtracted in the order of
\* the checks
ScoreOf(issues) ==
  MaxWithZero(
    Penalised(
      Penalised(
        Penalised(
          Penalised(
            Penalised(
              Penalised(DoubleOne, issues, "Segment too short", TooShortPenalty),
              issues, "Segment too long", TooLongPenalty),
            issues, "Text too short", FewWordsPenalty),
          issues, "Text too long", ManyWordsPenalty),
        issues, "Missing translation", NoTranslationPenalty),
      issues, "Contains formatting characters", FormattingPenalty))

AllIssues ==
  {"Segment too short", "Segment too long", "Text too short", "Text too long",
   "Missing translation", "Contains formatting characters"}

\* the sets of issues that one segment can have
IssueSets ==
  {issues \in SUBSET AllIssues :
     /\ ~({"Segment too short", "Segment too long"} \subseteq issues)
     /\ ~({"Text too short", "Text too long"} \subseteq issues)}

\* the scores, tabulated (@@ makes the table an explicit one)
ScoreTable == [issues \in IssueSets |-> ScoreOf(issues)] @@ <<>>

\* the scores that pass `quality.score >= 0.8`
GoodTable ==
  [issues \in IssueSets |-> ~DoubleLess(ScoreTable[issues], GoodScore)] @@ <<>>

\* the pairs of scores of which the first is lower than the second
LowerTable ==
  [pair \in IssueSets \X IssueSets |->
     DoubleLess(ScoreTable[pair[1]], ScoreTable[pair[2]])] @@ <<>>

assessSegmentQuality(segment) ==
  [score |-> ScoreTable[Issues(segment)], issues |-> Issues(segment)]

NeedsCleaning(issues) == "Contains formatting characters" \in issues

optimizeSegment(segment) ==
  LET quality == assessSegmentQuality(segment)
  IN IF GoodTable[quality.issues] THEN segment
     ELSE [segment EXCEPT
             !.text = IF NeedsCleaning(quality.issues)
                      THEN cleanTextOfClient(segment.text) ELSE @,
             !.translation = IF "Missing translation" \in quality.issues
                             THEN TranslationNeeded ELSE @]

optimizeSegments(segments) ==
  [k \in 1..Len(segments) |-> optimizeSegment(segments[k])]

\* optimizeSegments returns; it is applied at most twice
OptimizeSegmentsReturns ==
  /\ call.fn = "optimizeSegments"
  /\ Len(call.results) < 2
  /\ call' = [call EXCEPT !.results = Append(@, optimizeSegments(Operand))]
  /\ UNCHANGED <<now, ticks, progressMap, job, held, builder>>

QualityAlphabet == {"a", " ", "\n", "[", "]", "("}

QualityTexts ==
  UNION {[1..n -> QualityAlphabet] : n \in 0..(MaxChars - 1)}
  \cup {<<"<", "b", ">", "a", " ", "a", " ", "(", "<", "/", "b", ">">>}

QualityTimes == {2000, 5000, 16000}

InitQuality ==
  /\ now = 0
  /\ ticks = 0
  /\ progressMap = <<>>
  /\ job = [j \in Jobs |-> IdleJob]
  /\ held = <<>>
  /\ builder = IdleBuilder
  /\ \E text \in QualityTexts, endTime \in QualityTimes,
        translation \in {"", "translated"} :
       call = [fn |-> "optimizeSegments",
               arg |-> <<[id |-> 1, startTime |-> 0, endTime |-> endTime,
                          text |-> text, translation |-> translation,
                          audioUrl |-> <<>>, videoUrl |-> <<>>]>>,
               results |-> <<>>]

NextQuality == OptimizeSegmentsReturns

SpecQuality == InitQuality /\ [][NextQuality]_vars

\* C15: the score of optimize(optimize(s)) is not lower than the score of
\* optimize(s), for every segment s.
C15_ReapplyingNeverLowersScore ==
  (call.fn = "optimizeSegments" /\ Len(call.results) = 2) =>
    \A k \in 1..Len(call.arg) :
      ~LowerTable[<<Issues(call.results[2][k]), Issues(call.results[1][k])>>]

\* C16: when the translation of segment k raises, only the translation of
\* segment k becomes the failure marker; the request goes on to the
\* translation of the next segment or, after the last, hands all segments
\* to the extraction; no error result comes of it, and a finished request
\* has asked for the translation of every segment.
C16_TranslationFailureAbsorbed ==
  /\ [][\A j \in Jobs :
          (/\ job[j].pc = "translate"
           /\ job'[j] # job[j]
           /\ job'[j].segments[job[j].k].translation = TranslationFailed) =>
            LET k == job[j].k
                n == Len(job[j].segments)
            IN /\ Len(job'[j].segments) = n
               /\ \A m \in 1..n :
                    job'[j].segments[m] =
                      IF m = k
                      THEN [job[j].segments[m] EXCEPT
                              !.translation = TranslationFailed]
                      ELSE job[j].segments[m]
               /\ job'[j].response = NoResponse
               /\ IF k < n
                  THEN job'[j].pc = "translate" /\ job'[j].k = k + 1
                  ELSE /\ job'[j].pc = "mkdir"
                       /\ MapHas(progressMap', job'[j].progressId)
                       /\ MapGet(progressMap', job'[j].progressId)
                            .rec.totalSegments = n]_vars
  /\ [](\A j \in Jobs :
          (job[j].includeTranslation /\ job[j].pc \in {"mkdir", "tool", "backoff", "done"}) =>
            /\ \A m \in 1..Len(job[j].segments) :
                 job[j].segments[m].translation \in {"translated", TranslationFailed}
            /\ job[j].pc = "done" => job[j].response.success)

\* a request has finished with success although the translation of its
\* first segment raised; the second segment was translated
C16_FirstTranslationFailed ==
  \E j \in Jobs :
    /\ job[j].pc = "done" /\ job[j].response.success
    /\ Len(job[j].segments) = 2
    /\ job[j].segments[1].translation = TranslationFailed
    /\ job[j].segments[2].translation = "translated"

(***************************************************************************)
(* One request whose provider calls may fail.                              *)
(***************************************************************************)
NextProvider ==
  \/ \E body \in Bodies : Request(1, body)
  \/ MetadataReturns(1)
  \/ MetadataFails(1)
  \/ \E text \in ProviderTexts : CaptionsReturn(1, text)
  \/ CaptionsFail(1)
  \/ \E ok \in BOOLEAN : TranslationReturns(1, ok)
  \/ \E ok \in BOOLEAN : EnsureDirectoriesReturns(1, ok)
  \/ \E ok \in BOOLEAN : ToolReturns(1, ok)
  \/ BackoffElapsed(1)

SpecProvider == Init /\ [][NextProvider]_vars

\* C17: a request for which the fetch of the metadata or of the captions
\* failed starts no extraction job and ends with the error result.
C17_ProviderFailureIsFatal ==
  \A j \in Jobs :
    job[j].providerFailed =>
      /\ job[j].progressId = <<>>
      /\ job[j].pc = "done" => ~job[j].response.success

(***************************************************************************)
(* CaptionProcessor.parseCaptions, applied to payloads of the two timed    *)
(* formats.  A payload is written out from a list of blocks, each with a   *)
(* time range, the form of its time line and its text; `blocks` keeps the  *)
(* list for the properties.                                                *)
(***************************************************************************)
TwoDigits(n) ==
  <<DigitChars[((n \div 10) % 10) + 1], DigitChars[(n % 10) + 1]>>
ThreeDigits(n) == <<DigitChars[((n \div 100) % 10) + 1]>> \o TwoDigits(n % 100)

\* HH:MM:SS,mmm with the separator `sep` before the milliseconds
Stamp(ms, sep) ==
  TwoDigits(ms \div (3600 * MsPerSec)) \o <<":">>
  \o TwoDigits((ms \div (60 * MsPerSec)) % 60) \o <<":">>
  \o TwoDigits((ms \div MsPerSec) % 60) \o <<sep>>
  \o ThreeDigits(ms % MsPerSec)

\* the time line of a block: with commas, with dots, with a letter for the
\* first digit, or with a short arrow
TimeLine(b) ==
  CASE b.form = "comma" ->
         Stamp(b.start, ",") \o <<" ", "-", "-", ">", " ">> \o Stamp(b.end, ",")
    [] b.form = "dot" ->
         Stamp(b.start, ".") \o <<" ", "-", "-", ">", " ">> \o Stamp(b.end, ".")
    [] b.form = "digits" ->
         <<"x">> \o Tail(Stamp(b.start, ","))
         \o <<" ", "-", "-", ">", " ">> \o Stamp(b.end, ",")
    [] b.form = "arrow" ->
         Stamp(b.start, ",") \o <<" ", "-", ">", " ">> \o Stamp(b.end, ",")

SrtBlock(k, b) ==
  <<DigitChars[k + 1], "\n">> \o TimeLine(b)
  \o (IF b.text = <<>> THEN <<>> ELSE <<"\n">> \o b.text)

SrtPayload(blocks) ==
  Join([k \in 1..Len(blocks) |-> SrtBlock(k, blocks[k])], <<"\n", "\n">>)

TtmlParagraph(b) ==
  <<"<", "p", " ">> \o BeginAttr \o Stamp(b.start, ".") \o <<"\"", " ">>
  \o EndAttr \o Stamp(b.end, ".") \o <<"\"", ">">> \o b.text \o ClosingP

TtmlPayload(blocks) ==
  Join([k \in 1..Len(blocks) |-> TtmlParagraph(blocks[k])], <<"\n">>)

Payload(format, blocks) ==
  IF format = "ttml" THEN TtmlPayload(blocks) ELSE SrtPayload(blocks)

ParseCall(format, blocks) ==
  [fn |-> "parseCaptions", arg |-> Payload(format, blocks),
   format |-> format, blocks |-> blocks, results |-> <<>>]

\* parseCaptions returns
ParseCaptionsReturns ==
  /\ call.fn = "parseCaptions"
  /\ call.results = <<>>
  /\ call' = [call EXCEPT !.results = <<parseCaptions(call.arg)>>]
  /\ UNCHANGED <<now, ticks, progressMap, job, held, builder>>

NextParse == ParseCaptionsReturns

\* up to MaxBlocks blocks out of `alternatives`
BlockLists(alternatives) ==
  UNION {[1..n -> alternatives] : n \in 1..MaxBlocks}

\* times of day: none, a second and a half, an hour and more
StampTimes == {0, 1500, 3723004}

\* the text of the k-th block, given as its lines
BlockLines ==
  <<<<TextA>>, <<<<"b", "e">>, <<"n", "e">>>>, <<TextC>>, <<TextB>>>>

\* (a) blocks with commas or dots, their ranges valid or empty
SeparatorBlocks ==
  {b \in [start : StampTimes, end : StampTimes, form : {"comma", "dot"},
          text : {TextA}] : b.start <= b.end}

InitSeparators ==
  /\ now = 0
  /\ ticks = 0
  /\ progressMap = <<>>
  /\ job = [j \in Jobs |-> IdleJob]
  /\ held = <<>>
  /\ builder = IdleBuilder
  /\ \E blocks \in BlockLists(SeparatorBlocks) : call = ParseCall("srt", blocks)

SpecSeparators == InitSeparators /\ [][NextParse]_vars

\* (b) blocks of either format with valid ranges one after the other, and
\* texts that are speech, markup, an annotation, or nothing
StripTexts ==
  {TextA,
   <<"[", "M", "u", "s", "i", "c", "]">>,
   <<"<", "i", ">", "<", "/", "i", ">">>,
   <<"<", "b", ">", "s", "i", "<", "/", "b", ">", " ", "[", "x", "]">>,
   <<"&", "a", "m", "p", ";">>,
   <<>>}

StripLists ==
  {[k \in 1..Len(texts) |->
      [start |-> 3000 * (k - 1), end |-> 3000 * k - 500, form |-> "comma",
       text |-> texts[k]]] : texts \in BlockLists(StripTexts)}

InitStrip ==
  /\ now = 0
  /\ ticks = 0
  /\ progressMap = <<>>
  /\ job = [j \in Jobs |-> IdleJob]
  /\ held = <<>>
  /\ builder = IdleBuilder
  /\ \E format \in {"ttml", "srt"}, blocks \in StripLists :
       call = ParseCall(format, blocks)

SpecStrip == InitStrip /\ [][NextParse]_vars

\* (c) blocks with commas whose ranges are valid, empty or reversed, and
\* blocks whose time line does not parse
RangeBlocks ==
  {b \in [start : StampTimes, end : StampTimes,
          form : {"comma", "digits", "arrow"}] :
     b.form # "comma" => (b.start = 0 /\ b.end = 1500)}

RangeLists ==
  {[k \in 1..Len(ranges) |->
      [start |-> ranges[k].start, end |-> ranges[k].end,
       form |-> ranges[k].form, text |-> Join(BlockLines[k], <<"\n">>)]] :
     ranges \in BlockLists(RangeBlocks)}

InitRanges ==
  /\ now = 0
  /\ ticks = 0
  /\ progressMap = <<>>
  /\ job = [j \in Jobs |-> IdleJob]
  /\ held = <<>>
  /\ builder = IdleBuilder
  /\ \E blocks \in RangeLists : call = ParseCall("srt", blocks)

SpecRanges == InitRanges /\ [][NextParse]_vars

Parsed == call.fn = "parseCaptions" /\ call.results # <<>>

\* the blocks with a range that is written as it should be and not empty
ValidBlocks(blocks) ==
  {k \in 1..Len(blocks) :
     blocks[k].form \in {"comma", "dot"} /\ blocks[k].start < blocks[k].end}

\* C18: a payload whose time lines have a dot before the milliseconds is
\* parsed as the same payload with commas is: one entry for every valid
\* block, with its start and end.
C18_DotsParsedLikeCommas ==
  Parsed =>
    LET commas == [k \in 1..Len(call.blocks) |->
                     [call.blocks[k] EXCEPT !.form = "comma"]]
    IN /\ call.results[1] = parseCaptions(SrtPayload(commas))
       /\ Len(call.results[1]) = Cardinality(ValidBlocks(call.blocks))

\* C19: in both timed formats an entry is emitted only for a block whose
\* text is not empty once tags, entities and [annotations] are stripped.
C19_NoEntryForEmptyText ==
  Parsed =>
    \A x \in 1..Len(call.results[1]) :
      \E k \in 1..Len(call.blocks) :
        /\ call.blocks[k].start = call.results[1][x].start
        /\ cleanText(call.blocks[k].text) # <<>>

\* the entries of the valid blocks, in the order of the payload
RECURSIVE EntriesOfValid(_, _)
EntriesOfValid(blocks, k) ==
  IF k > Len(blocks) THEN <<>>
  ELSE (IF k \in ValidBlocks(blocks)
        THEN <<[start |-> blocks[k].start, end |-> blocks[k].end,
                text |-> Join(BlockLines[k], <<" ">>)]>>
        ELSE <<>>) \o EntriesOfValid(blocks, k + 1)

\* C20: of n blocks with one invalid time range (one that does not parse,
\* or does not end after its start), parseCaptions returns the n - 1
\* entries of the valid blocks, in their order.
C20_InvalidBlockOmitted ==
  (/\ Parsed
   /\ Includes(call.arg, <<"-", "-", ">">>)
   /\ Cardinality(ValidBlocks(call.blocks)) = Len(call.blocks) - 1) =>
    /\ Len(call.results[1]) = Len(call.blocks) - 1
    /\ call.results[1] = EntriesOfValid(call.blocks, 1)

\* three blocks have been parsed of which the second has a time line that
\* does not parse; two entries have come out
C20_MiddleBlockSkipped ==
  /\ Parsed
  /\ Len(call.blocks) = 3
  /\ ValidBlocks(call.blocks) = {1, 3}
  /\ call.blocks[2].form = "digits"
  /\ Len(call.results[1]) = 2

(***************************************************************************)
(* CaptionProcessor.validateSegment, and one request whose captions are    *)
(* payloads of all three formats.                                          *)
(***************************************************************************)
\* Number.prototype.toString of a natural number
RECURSIVE NumberToString(_)
NumberToString(n) ==
  IF n < 10 THEN <<DigitChars[n + 1]>>
  ELSE NumberToString(n \div 10) \o <<DigitChars[(n % 10) + 1]>>

validateSegment(segment) ==
  /\ NumberToString(segment.id) # <<>>
  /\ segment.startTime >= 0
  /\ segment.endTime > segment.startTime
  /\ Trim(segment.text) # <<>>

\* bodies that pass the validation of the route, with the shortest, the
\* default and the longest segment duration
GateBodies ==
  [videoUrl : {"https://youtu.be/v1"}, segmentDuration : {3, 8, 30},
   includeTranslation : {FALSE}]

\* blocks whose ranges overlap, abut, leave gaps or come out of order
GateRanges ==
  {[start |-> 0, end |-> 2000], [start |-> 0, end |-> 5000],
   [start |-> 2000, end |-> 9000], [start |-> 5000, end |-> 9000],
   [start |-> 5000, end |-> 2000]}

GateLists ==
  {[k \in 1..Len(ranges) |->
      [start |-> ranges[k].start, end |-> ranges[k].end, form |-> "comma",
       text |-> Join(BlockLines[k], <<"\n">>)]] :
     ranges \in BlockLists(GateRanges)}

\* paragraphs of speech, of an annotation and of empty markup
GateParagraphs ==
  {[k \in 1..Len(texts) |->
      [start |-> 3000 * (k - 1), end |-> 3000 * k - 500, form |-> "comma",
       text |-> texts[k]]] :
     texts \in BlockLists({TextA, <<"[", "x", "]">>,
                           <<"<", "i", ">", "<", "/", "i", ">">>})}

GateTexts ==
  ProviderTexts
  \cup {TtmlPayload(blocks) : blocks \in GateParagraphs}
  \cup {SrtPayload(blocks) : blocks \in GateLists}

NextGate ==
  \/ \E body \in GateBodies : Request(1, body)
  \/ MetadataReturns(1)
  \/ \E text \in GateTexts : CaptionsReturn(1, text)
  \/ \E ok \in BOOLEAN : EnsureDirectoriesReturns(1, ok)
  \/ \E ok \in BOOLEAN : ToolReturns(1, ok)
  \/ BackoffElapsed(1)

SpecGate == Init /\ [][NextGate]_vars

\* C21: every segment that processVideo hands to processSegments satisfies
\* validateSegment.
C21_HandedSegmentsAreValid ==
  \A j \in Jobs :
    Registered(j) =>
      \A k \in 1..Len(job[j].segments) : validateSegment(job[j].segments[k])

\* two segments have been handed over that come from a timed payload: the
\* second starts off the grid of the prose slots and holds two lines of a
\* block
C21_TimedSegmentsHandedOver ==
  \E j \in Jobs :
    /\ Registered(j)
    /\ Len(job[j].segments) >= 2
    /\ job[j].segments[2].startTime % 3000 # 0
    /\ Includes(job[j].segments[2].text, <<"b", "e", " ", "n", "e">>)

(***************************************************************************)
(* The order of the extractions of a job.                                  *)
(***************************************************************************)
Extracting(j) == job[j].pc \in {"tool", "backoff"}

\* the loop of the job leaves its segment in this step
LeavesSegment(j) == job[j].i' # job[j].i

\* C22: a job has at most one invocation of the tool in flight; while it
\* works on segment i every segment before i has succeeded, and it leaves
\* segment i, for segment i + 1 and nothing else, only in the step in which
\* the invocation for segment i returns with success; once a segment has
\* used up its retries the job starts nothing more.
C22_SequentialExtraction ==
  /\ [](\A j \in Jobs :
          /\ job[j].inFlight <= 1
          /\ Extracting(j) => job[j].completed = job[j].i)
  /\ [][\A j \in Jobs :
          /\ LeavesSegment(j) =>
               /\ job[j].pc = "tool" /\ job[j].inFlight = 1
               /\ job[j].i' = job[j].i + 1
               /\ job[j].completed' = job[j].completed + 1
          /\ SegmentFailed(j) =>
               /\ job[j].inFlight = 0
               /\ UNCHANGED <<job[j].i, job[j].attempts, job[j].inFlight>>]_vars

\* the second segment of a job is being retried
C22_SecondSegmentRetried ==
  \E j \in Jobs :
    /\ job[j].pc = "tool" /\ job[j].inFlight = 1
    /\ job[j].i = 1 /\ job[j].retryCount >= 1

\* every segment of the job has been extracted with success
AllExtracted(j) ==
  /\ job[j].completed = Len(job[j].segments)
  /\ job[j].i = Len(job[j].segments)

\* C23: a job whose progress record reads `completed` has extracted every
\* one of its segments with success.
C23_CompletedMeansAllExtracted ==
  \A j \in Jobs :
    (InStore(j) /\ Rec(j).status = "completed") => AllExtracted(j)

(***************************************************************************)
(* Termination of a job.  Every awaited call of processSegments settles:   *)
(* the directory creation, each invocation of the tool and the timer of    *)
(* each backoff.                                                           *)
(***************************************************************************)
AwaitsSettle(j) ==
  /\ WF_vars(\E ok \in BOOLEAN : EnsureDirectoriesReturns(j, ok))
  /\ WF_vars(\E ok \in BOOLEAN : ToolReturns(j, ok))
  /\ WF_vars(BackoffElapsed(j))

LiveBody ==
  [videoUrl |-> "https://youtu.be/v1", segmentDuration |-> 8,
   includeTranslation |-> FALSE]

\* two requests for one video of two segments, hours passing, and evictions
NextLive ==
  \/ \E j \in Jobs : Request(j, LiveBody)
  \/ \E j \in Jobs : MetadataReturns(j)
  \/ \E j \in Jobs : CaptionsReturn(j, Repeat(Sentence, 4))
  \/ \E j \in Jobs, ok \in BOOLEAN : EnsureDirectoriesReturns(j, ok)
  \/ \E j \in Jobs, ok \in BOOLEAN : ToolReturns(j, ok)
  \/ \E j \in Jobs : BackoffElapsed(j)
  \/ ClearOldProgress
  \/ Tick(OneHourMs)

SpecLive == Init /\ [][NextLive]_vars /\ \A j \in Jobs : AwaitsSettle(j)

Terminated(j) == job[j].pc = "done"

ShowsTerminal(j) == InStore(j) /\ Rec(j).status \in TerminalStatus

\* C24: every registered job eventually terminates, and from then on, and
\* for as long as its entry is in the store, its record eventually shows
\* `completed` or `failed`.
C24_JobsTerminate ==
  \A j \in Jobs :
    Registered(j) ~> (Terminated(j) /\ (InStore(j) => ShowsTerminal(j)))

\* a job has terminated after its entry was evicted, and none of its writes
\* of a terminal status has reached the store
C24_TerminatedAfterEviction ==
  \E j \in Jobs :
    /\ Terminated(j) /\ Registered(j) /\ ~InStore(j)
    /\ StatusOf(job[j].log) \notin TerminalStatus

\* C24 as stated: a job that registers eventually terminates with a record
\* in the store that shows `completed` or `failed`.
C24_RecordShowsTerminal ==
  \A j \in Jobs : <>Registered(j) => <>(Terminated(j) /\ ShowsTerminal(j))

\* C25: the progress ids of distinct jobs are distinct, so that no two jobs
\* write to the same entry.
C25_DistinctJobIds ==
  \A j \in Jobs : Registered(j) => SoleOwner(j)

(***************************************************************************)
(* Eviction against a job that is still running.                           *)
(***************************************************************************)
Keys(map) == {map[k].key : k \in 1..Len(map)}

\* the entry of the job has been evicted
Evicted(j) == Registered(j) /\ ~InStore(j)

\* C26: a step that removes entries removes exactly those that started more
\* than an hour ago, whatever their status, and leaves the others as they
\* are; an evicted entry never comes back, and a step of a job whose entry
\* is evicted leaves the store as it is.
C26_EvictionIsFinal ==
  [][/\ (Keys(progressMap) \ Keys(progressMap') # {}) =>
          /\ progressMap' = clearOldProgress(progressMap, now)
          /\ \A k \in 1..Len(progressMap) :
               progressMap[k].rec.startTime < now - OneHourMs
                 => progressMap[k].key \notin Keys(progressMap')
     /\ \A j \in Jobs :
          Evicted(j) =>
            /\ Evicted(j)'
            /\ job[j]' # job[j] => progressMap' = progressMap]_vars

\* a job has run to its end after its entry was evicted while it was
\* running, next to the entry of another job
C26_EndedAfterEviction ==
  \E j \in Jobs :
    /\ Evicted(j) /\ Terminated(j)
    /\ StatusOf(job[j].log) \notin TerminalStatus
    /\ progressMap # <<>>

(***************************************************************************)
(* VideoProcessingService.processSegments called with a list of two        *)
(* hundred segments.                                                       *)
(***************************************************************************)
MaxTotal == 200

\* n segments of 3 s that start 2 s apart, as createSegments cuts them from
\* captions without gaps
SegmentsOf(n) ==
  [k \in 1..n |->
     [id |-> k, startTime |-> 2000 * (k - 1), endTime |-> 2000 * (k - 1) + 3000,
      text |-> <<"a">>, translation |-> "", audioUrl |-> <<>>,
      videoUrl |-> <<>>]]

ManySegments == {SegmentsOf(n) : n \in {1, 2, MaxTotal}}

\* processSegments(videoId, segments) up to its first await
ProcessSegmentsCalled(j, videoId, segments) ==
  /\ job[j].pc = "idle"
  /\ ProcessSegments(j, [job[j] EXCEPT !.videoId = videoId,
                                       !.segments = segments])
  /\ UNCHANGED <<now, ticks, held, builder, call>>

NextMany ==
  \/ \E segments \in ManySegments : ProcessSegmentsCalled(1, "v1", segments)
  \/ \E ok \in BOOLEAN : EnsureDirectoriesReturns(1, ok)
  \/ \E ok \in BOOLEAN : ToolReturns(1, ok)
  \/ BackoffElapsed(1)

SpecMany == Init /\ [][NextMany]_vars

\* C27: the record of a job of n >= 1 segments whose status is `pending` or
\* `processing` has a progress below 100, and a progress of 100 goes with
\* the status `completed`.
C27_HundredOnlyWhenCompleted ==
  \A j \in Jobs :
    (InStore(j) /\ Len(job[j].segments) >= 1) =>
      /\ Rec(j).status \in {"pending", "processing"} => Rec(j).progress < 100
      /\ Rec(j).progress = 100 => Rec(j).status = "completed"

(***************************************************************************)
(* createSegments as processVideo calls it for a request that the          *)
(* validation of POST /process has accepted.                               *)
(***************************************************************************)
\* Joi.number().integer().min(3).max(30)
MinAccepted == 3
MaxAccepted == 30

AcceptedOptions ==
  [segmentDuration : {d * MsPerSec : d \in MinAccepted..MaxAccepted},
   overlap : {1 * MsPerSec}]

\* processVideo calls createSegments(captionData, {segmentDuration, overlap: 1})
CreateSegmentsCalled(captions, options) ==
  /\ builder.pc = "idle"
  /\ builder' = CalledBuilder(captions, options)
  /\ UNCHANGED <<now, ticks, progressMap, job, held, call>>

AcceptedTimes == {0, 3000, 7000, 12000}

AcceptedCaptions ==
  UNION {[1..n -> {c \in [start : AcceptedTimes, end : AcceptedTimes] :
                     c.end > c.start}] : n \in 0..MaxCaptions}

NextAccepted ==
  \/ \E times \in AcceptedCaptions, options \in AcceptedOptions :
       CreateSegmentsCalled(WithTexts(times), options)
  \/ WindowIteration
  \/ CreateSegmentsReturns

SpecAccepted == Init /\ [][NextAccepted]_vars

\* the least the clock moves in one iteration
LeastAdvance(o) == Min(Advance(o), AdvancePastGap(o))

\* C28: every iteration of the loop of createSegments moves the clock of
\* the window forward, by segmentDuration - overlap at least, and the loop
\* runs only while the clock is before the end of the last caption: the
\* k-th iteration begins at (k - 1) * (segmentDuration - overlap) or later,
\* so that the loop ends after a bounded number of iterations.
C28_CreateSegmentsTerminates ==
  /\ [](builder.windows # <<>> =>
          /\ LeastAdvance(builder.options) > 0
          /\ (Len(builder.windows) - 1) * LeastAdvance(builder.options)
                 <= builder.windows[Len(builder.windows)]
          /\ builder.windows[Len(builder.windows)] < MaxEnd(builder.captions))
  /\ [][builder.pc = "loop" /\ builder.pc' = "loop" =>
          builder.st.currentTime' > builder.st.currentTime]_vars

\* a call with the shortest accepted duration has returned after four
\* iterations, of which one pushed nothing
C28_ShortWindowsReturned ==
  /\ builder.pc = "done"
  /\ builder.options.segmentDuration = MinAccepted * MsPerSec
  /\ Len(builder.windows) >= 4
  /\ Len(builder.st.segments) < Len(builder.windows)

(***************************************************************************)
(* The range of a merged segment against the ranges of the segments that   *)
(* went into it.                                                           *)
(***************************************************************************)
\* the loop of mergeAdjacentSegments again, keeping for every merged
\* segment the indices of the segments merged into it
RECURSIVE GroupLoop(_, _, _, _, _)
GroupLoop(segments, i, groups, group, current) ==
  IF i > Len(segments) THEN Append(groups, group)
  ELSE IF CloseEnough(current, segments[i])
  THEN GroupLoop(segments, i + 1, groups, group \cup {i},
                 MergeInto(current, segments[i]))
  ELSE GroupLoop(segments, i + 1, Append(groups, group), {i}, segments[i])

Constituents(segments) ==
  IF Len(segments) = 0 THEN <<>>
  ELSE GroupLoop(segments, 2, <<>>, {1}, segments[1])

\* sorted by startTime, every segment ending after it starts
SortedRanges(segments) ==
  /\ \A k \in 1..Len(segments) : segments[k].endTime > segments[k].startTime
  /\ \A k \in 1..(Len(segments) - 1) :
       segments[k].startTime <= segments[k + 1].startTime

\* C29: for an input sorted by startTime whose segments end after they
\* start, every merged segment starts at the least startTime and ends at
\* the greatest endTime of the segments merged into it.
C29_MergedRangeCoversConstituents ==
  (call.fn = "mergeAdjacentSegments" /\ Len(call.results) >= 1
     /\ SortedRanges(call.arg)) =>
    LET merged == call.results[1]
        groups == Constituents(call.arg)
    IN /\ Len(merged) = Len(groups)
       /\ \A g \in 1..Len(merged) :
            /\ \A k \in groups[g] :
                 /\ merged[g].startTime <= call.arg[k].startTime
                 /\ merged[g].endTime >= call.arg[k].endTime
            /\ \E k \in groups[g] : merged[g].startTime = call.arg[k].startTime
            /\ \E k \in groups[g] : merged[g].endTime = call.arg[k].endTime

\* C30: the score of every segment of optimizeSegments(s) is not lower than
\* the score of the segment it was made from.
C30_RepairNeverLowersScore ==
  (call.fn = "optimizeSegments" /\ Len(call.results) >= 1) =>
    \A k \in 1..Len(call.arg) :
      ~LowerTable[<<Issues(call.results[1][k]), Issues(call.arg[k])>>]

====
